---- MODULE Spec2Model ----
(***************************************************************************)
(* State-machine model of the flight management system's data-access and   *)
(* session core (src/DBManager.cpp, the DBUser class, and the feed         *)
(* pagination handlers of src/Pages/Discovery.qml).                        *)
(*                                                                         *)
(* Strings that the code inspects character by character (e-mail           *)
(* addresses, passwords) are sequences of one-character strings; all       *)
(* other strings are TLA+ strings, "" being the empty QString.             *)
(* A price is a whole number of thousandths of the currency unit, so that  *)
(* the decimal(10,2) column can be modelled by what it does to a double.   *)
(***************************************************************************)
EXTENDS Integers, Sequences, FiniteSets, TLC

VARIABLES
    \* ---- the relational store (outlives the connection)
    flight,              \* table flight: Flight_id -> row (DOMAIN = stored ids)
    t_users,             \* table t_users: set of rows
    userTableExists,     \* whether table t_users exists in the schema
    admin_info,          \* table admin_info: set of rows (never written by this code)
    \* ---- DBManager members
    dbOpen,              \* m_db.isOpen()
    m_isAdminLoggedIn, m_currentAdminId, m_currentAdminName,
    m_isUserLoggedIn, m_currentUserId, m_currentUserName, m_currentUserEmail,
    \* ---- the UI's call in flight and the outcome of the last completed call
    pending,             \* the invocation being handled, or Idle
    last,                \* [op, ret, msg, events] of the last completed call
    \* ---- the posts of the feed and the page Discovery.qml
    posts,               \* ids of the posts that exist in the store
    assigned,            \* the greatest post id the store has assigned
    posts_list,          \* property posts_list: ids visited, in visiting order
    current_post_index,  \* property current_post_index (0-based)
    card_id,             \* shared_card.item.card_data.id; NoCard before any
    feedLast,            \* what the page's last handler did
    \* ---- threads calling into the singletons
    thr,                 \* thread -> the call it is in and its position there
    locks,               \* class -> the thread holding its static m_mutex, or 0
    m_instance,          \* class -> its static m_instance (0 is nullptr)
    constructed,         \* class -> how many times its constructor has run
    \* ---- the DBUser object and its table
    dbUser,              \* members of DBUser: m_db and its session
    user_info            \* table user_info: set of rows

storeVars == <<flight, t_users, userTableExists, admin_info>>
adminVars == <<m_isAdminLoggedIn, m_currentAdminId, m_currentAdminName>>
userVars == <<m_isUserLoggedIn, m_currentUserId, m_currentUserName, m_currentUserEmail>>
coreVars == <<storeVars, dbOpen, adminVars, userVars, pending, last>>
feedVars == <<posts, assigned, posts_list, current_post_index, card_id, feedLast>>
threadVars == <<thr, locks, m_instance, constructed, dbUser, user_info>>
vars == <<coreVars, feedVars, threadVars>>

-----------------------------------------------------------------------------
(* Bounds and input domains                                                *)

\* Largest total_seats value the UI submits.
MaxSeats == 2

Idle == [op |-> "idle"]
\* The value of `last` while a call is being handled.
Running == [op |-> "running", ret |-> TRUE, msg |-> "", events |-> <<>>]

Chars(s) == {s[i] : i \in 1..Len(s)}

LowerCase ==
    {"a","b","c","d","e","f","g","h","i","j","k","l","m",
     "n","o","p","q","r","s","t","u","v","w","x","y","z"}
UpperCase ==
    {"A","B","C","D","E","F","G","H","I","J","K","L","M",
     "N","O","P","Q","R","S","T","U","V","W","X","Y","Z"}
AsciiLetters == LowerCase \cup UpperCase
AsciiDigits == {"0","1","2","3","4","5","6","7","8","9"}
\* Characters of Unicode category No / Nl: numbers that are not decimal digits.
OtherNumbers == {"SUPERSCRIPT_TWO", "ROMAN_NUMERAL_FOUR"}

\* QChar::isLetter(), QChar::isNumber(), QChar::isDigit() on the model's alphabet.
isLetter(c) == c \in AsciiLetters
isNumber(c) == c \in AsciiDigits \cup OtherNumbers
isDigit(c) == c \in AsciiDigits

\* Inputs of the admin login form.
AdminNameInputs == {"", "root", "guest"}
RootPassword == <<"r","o","o","t","1","2","3","4">>
\* encryptPassword: SHA-256 of the UTF-8 bytes as a hex digest.  The digest of
\* p is the string <<"sha256">> \o p: deterministic, never empty, never equal
\* to p, and distinct for the distinct inputs of the model.
encryptPassword(password) == <<"sha256">> \o password
\* The comparison of a stored Password column with what the form submitted,
\* without the digest.
passwordMatches_Plain(stored, password) == stored = password
\* A comparison that accepts every password.
passwordMatches_Always(stored, password) == TRUE
\* storedPwd == encryptPassword(password): the login's comparison of the
\* stored digest with the digest of the submitted password.
passwordMatches(stored, password) == stored = encryptPassword(password)
\* The last input is the digest itself typed into the password field.
AdminPasswordInputs ==
    {<<>>, RootPassword, <<"w","r","o","n","g">>, encryptPassword(RootPassword)}

\* Inputs of the user registration and login forms.
EmailA == <<"a","@","b",".","i","o">>
EmailC == <<"c","@","b",".","i","o">>
EmailNoTld == <<"a","@","b">>
EmailInputs == {<<>>, EmailNoTld, EmailA, EmailC}
UsernameInputs == {"", "alice", "bob"}
\* Usernames as DBUser's forms submit them: character by character, for
\* isValidUsername.
NameAlice == <<"a","l","i","c","e">>
NameBob == <<"b","o","b">>
NameDigitFirst == <<"1","b","o","b">>
PwStrong == <<"a","b","c","d","1","2","3","4">>
PwStrong2 == <<"x","y","z","w","9","8","7","6">>
PwNoDigit == <<"a","b","c","d","e","f","g","h">>
PwShort == <<"a","1">>
PasswordInputs == {<<>>, PwShort, PwNoDigit, PwStrong, PwStrong2}

-----------------------------------------------------------------------------
(* Credential utilities                                                    *)

\* ^[a-zA-Z0-9._%+-]+@[a-zA-Z0-9.-]+\.[a-zA-Z]{2,}$
EmailLocalChars == AsciiLetters \cup AsciiDigits \cup {".", "_", "%", "+", "-"}
EmailDomainChars == AsciiLetters \cup AsciiDigits \cup {".", "-"}
isValidEmailFormat(email) ==
    \E at \in 1..Len(email), dot \in 1..Len(email) :
        /\ at >= 2
        /\ \A i \in 1..(at - 1) : email[i] \in EmailLocalChars
        /\ email[at] = "@"
        /\ dot >= at + 2
        /\ \A i \in (at + 1)..(dot - 1) : email[i] \in EmailDomainChars
        /\ email[dot] = "."
        /\ Len(email) - dot >= 2
        /\ \A i \in (dot + 1)..Len(email) : email[i] \in AsciiLetters

\* The loop of isValidPasswordStrength: a character counts as a number only
\* when it is not a letter (else-if), and the early break does not change the
\* result.
isValidPasswordStrength(password) ==
    IF Len(password) < 8 THEN FALSE
    ELSE LET hasLetter == \E i \in 1..Len(password) : isLetter(password[i])
             hasNumber == \E i \in 1..Len(password) :
                              ~isLetter(password[i]) /\ isNumber(password[i])
         IN hasLetter /\ hasNumber

-----------------------------------------------------------------------------
(* Signals                                                                 *)

Sig(name, flag, text) == [sig |-> name, flag |-> flag, text |-> text]
operateResult(success, msg) == Sig("operateResult", success, msg)

\* The handler returns: the call leaves the event loop, its outcome is recorded.
Return(op, ret, msg, events) ==
    /\ last' = [op |-> op, ret |-> ret, msg |-> msg, events |-> events]
    /\ pending' = Idle
    /\ UNCHANGED <<feedVars, threadVars>>

-----------------------------------------------------------------------------
(* Connection manager                                                      *)

\* An initUserTable that takes a failed statement for a missing table.
initUserTable_ForgetsTable(created) ==
    userTableExists' = created

\* initUserTable: CREATE TABLE IF NOT EXISTS t_users; `created` is whether the
\* statement executed.  A failure is logged and otherwise ignored.
initUserTable(created) ==
    userTableExists' = (userTableExists \/ created)

\* Invocations the UI can issue on the connection and the sessions.
SessionCalls ==
    {[op |-> "connectDB"], [op |-> "disconnectDB"],
     [op |-> "adminLogout"], [op |-> "userLogout"]}
    \cup {[op |-> "verifyAdminLogin", adminName |-> n, password |-> p] :
             n \in AdminNameInputs, p \in AdminPasswordInputs}
    \cup {[op |-> "userLogin", username |-> u, password |-> p] :
             u \in UsernameInputs, p \in PasswordInputs}
    \cup {[op |-> "userRegister", email |-> e, username |-> u, password |-> p] :
             e \in EmailInputs, u \in UsernameInputs, p \in PasswordInputs}

connectDB ==
    /\ pending.op = "connectDB"
    /\ IF dbOpen
       THEN /\ \E created \in BOOLEAN : initUserTable(created)
            /\ UNCHANGED dbOpen
            /\ Return("connectDB", TRUE, "already_connected",
                      <<Sig("connectionStateChanged", TRUE, ""),
                        operateResult(TRUE, "already_connected")>>)
       ELSE \E success \in BOOLEAN :
            IF success
            THEN /\ dbOpen' = TRUE
                 /\ \E created \in BOOLEAN : initUserTable(created)
                 /\ Return("connectDB", TRUE, "connected",
                           <<Sig("connectionStateChanged", TRUE, ""),
                             operateResult(TRUE, "connected")>>)
            ELSE /\ UNCHANGED <<dbOpen, userTableExists>>
                 /\ Return("connectDB", FALSE, "connect_failed",
                           <<Sig("connectionStateChanged", FALSE, ""),
                             operateResult(FALSE, "connect_failed")>>)
    /\ UNCHANGED <<flight, t_users, admin_info, adminVars, userVars>>

\* A disconnect that leaves the user session as it is.
disconnectReset_KeepsSession ==
    UNCHANGED <<userVars, adminVars>>

\* The user-session reset at the end of disconnectDB (the admin members are
\* not assigned anywhere in the function).
disconnectReset ==
    /\ m_isUserLoggedIn' = FALSE
    /\ m_currentUserId' = -1
    /\ m_currentUserName' = ""
    /\ m_currentUserEmail' = <<>>
    /\ UNCHANGED adminVars

disconnectDB ==
    /\ pending.op = "disconnectDB"
    /\ dbOpen' = FALSE
    /\ disconnectReset
    /\ Return("disconnectDB", TRUE, IF dbOpen THEN "disconnected" ELSE "",
              (IF dbOpen
               THEN <<Sig("connectionStateChanged", FALSE, ""),
                      operateResult(TRUE, "disconnected")>>
               ELSE <<>>)
              \o <<Sig("userLoginStateChanged", FALSE, "")>>)
    /\ UNCHANGED storeVars

isConnected == dbOpen

-----------------------------------------------------------------------------
(* Admin session                                                           *)

\* SELECT Aid, Admin_name FROM admin_info WHERE Admin_name = ? AND Password = ?
\* with the supplied name and the supplied password bound as they are.
adminLoginRows(adminName, password) ==
    {r \in admin_info : r.Admin_name = adminName /\ r.Password = password}

\* A refusal that clears the flag and the id and keeps the name it was given.
adminLoginRefused_NameKept ==
    /\ m_isAdminLoggedIn' = FALSE
    /\ m_currentAdminId' = -1
    /\ m_currentAdminName' = pending.adminName
\* The members after a login that matched no row (the else branch).
adminLoginRefused ==
    /\ m_isAdminLoggedIn' = FALSE
    /\ m_currentAdminId' = -1
    /\ m_currentAdminName' = ""

verifyAdminLogin ==
    /\ pending.op = "verifyAdminLogin"
    /\ IF ~dbOpen
       THEN /\ UNCHANGED adminVars
            /\ Return("verifyAdminLogin", FALSE, "not_connected",
                      <<Sig("adminLoginFailed", FALSE, "not_connected")>>)
       ELSE IF pending.adminName = "" \/ pending.password = <<>>
       THEN /\ UNCHANGED adminVars
            /\ Return("verifyAdminLogin", FALSE, "empty_input",
                      <<Sig("adminLoginFailed", FALSE, "empty_input")>>)
       ELSE \E execOk \in BOOLEAN :
            IF ~execOk
            THEN /\ UNCHANGED adminVars
                 /\ Return("verifyAdminLogin", FALSE, "query_failed",
                           <<Sig("adminLoginFailed", FALSE, "query_failed")>>)
            ELSE IF adminLoginRows(pending.adminName, pending.password) # {}
            THEN \E r \in adminLoginRows(pending.adminName, pending.password) :
                 /\ m_isAdminLoggedIn' = TRUE
                 /\ m_currentAdminId' = r.Aid
                 /\ m_currentAdminName' = r.Admin_name
                 /\ Return("verifyAdminLogin", TRUE, "ok",
                           <<Sig("adminLoginStateChanged", TRUE, ""),
                             Sig("adminLoginSuccess", TRUE, r.Admin_name)>>)
            ELSE /\ adminLoginRefused
                 /\ Return("verifyAdminLogin", FALSE, "bad_credentials",
                           <<Sig("adminLoginFailed", FALSE, "bad_credentials")>>)
    /\ UNCHANGED <<storeVars, dbOpen, userVars>>

\* An administrator logout that ends the user session as well.
adminLogout_EndsUserSession ==
    /\ pending.op = "adminLogout"
    /\ m_isAdminLoggedIn' = FALSE
    /\ m_currentAdminId' = -1
    /\ m_currentAdminName' = ""
    /\ m_isUserLoggedIn' = FALSE
    /\ m_currentUserId' = -1
    /\ m_currentUserName' = ""
    /\ m_currentUserEmail' = <<>>
    /\ Return("adminLogout", TRUE, "",
              <<Sig("adminLoginStateChanged", FALSE, ""),
                Sig("adminLogoutSuccess", TRUE, "")>>)
    /\ UNCHANGED <<storeVars, dbOpen>>

adminLogout ==
    /\ pending.op = "adminLogout"
    /\ m_isAdminLoggedIn' = FALSE
    /\ m_currentAdminId' = -1
    /\ m_currentAdminName' = ""
    /\ Return("adminLogout", TRUE, "",
              <<Sig("adminLoginStateChanged", FALSE, ""),
                Sig("adminLogoutSuccess", TRUE, "")>>)
    /\ UNCHANGED <<storeVars, dbOpen, userVars>>

-----------------------------------------------------------------------------
(* User session (DBManager)                                                *)

\* A statement on t_users executes when the driver executes it and the table
\* exists.
usersExec(execOk) == execOk /\ userTableExists

\* isUsernameExists / isEmailExists: a failed query reads as "does not exist".
isUsernameExists(username, execOk) ==
    usersExec(execOk) /\ \E r \in t_users : r.username = username
isEmailExists(email, execOk) ==
    usersExec(execOk) /\ \E r \in t_users : r.email = email

\* INSERT INTO t_users: id is AUTO_INCREMENT, email and username are UNIQUE.
usersInsertOk(email, username, execOk) ==
    /\ usersExec(execOk)
    /\ \A r \in t_users : r.username # username /\ r.email # email
nextUserId == Cardinality(t_users) + 1

userRegister ==
    /\ pending.op = "userRegister"
    /\ LET email == pending.email
           username == pending.username
           password == pending.password
           Fail(msg) ==
               /\ UNCHANGED t_users
               /\ Return("userRegister", FALSE, msg,
                         <<Sig("userRegisterFailed", FALSE, msg)>>)
       IN IF ~dbOpen THEN Fail("not_connected")
          ELSE IF email = <<>> \/ username = "" \/ password = <<>>
          THEN Fail("empty_input")
          ELSE IF ~isValidEmailFormat(email) THEN Fail("bad_email_format")
          ELSE IF ~isValidPasswordStrength(password) THEN Fail("weak_password")
          ELSE \E nameQ \in BOOLEAN, mailQ \in BOOLEAN,
                  ins \in {"ok", "prepare_failed", "exec_failed"} :
               IF isUsernameExists(username, nameQ) THEN Fail("username_exists")
               ELSE IF isEmailExists(email, mailQ) THEN Fail("email_exists")
               ELSE IF ins = "prepare_failed" THEN Fail("store_error")
               ELSE IF usersInsertOk(email, username, ins = "ok")
               THEN /\ t_users' = t_users \cup
                          {[id |-> nextUserId, email |-> email,
                            username |-> username,
                            password |-> encryptPassword(password)]}
                    /\ Return("userRegister", TRUE, "ok",
                              <<Sig("userRegisterSuccess", TRUE, username),
                                operateResult(TRUE, "registered")>>)
               ELSE Fail("insert_failed")
    /\ UNCHANGED <<flight, userTableExists, admin_info, dbOpen, adminVars, userVars>>

userLogin ==
    /\ pending.op = "userLogin"
    /\ LET username == pending.username
           password == pending.password
           Fail(msg) ==
               /\ UNCHANGED userVars
               /\ Return("userLogin", FALSE, msg,
                         <<Sig("userLoginFailed", FALSE, msg)>>)
       IN IF ~dbOpen THEN Fail("not_connected")
          ELSE IF username = "" \/ password = <<>> THEN Fail("empty_input")
          ELSE \E execOk \in BOOLEAN :
               IF ~usersExec(execOk) THEN Fail("store_error")
               ELSE IF ~\E r \in t_users : r.username = username
               THEN Fail("username_not_found")
               ELSE \E r \in {x \in t_users : x.username = username} :
                    IF ~passwordMatches(r.password, password)
                    THEN Fail("wrong_password")
                    ELSE /\ m_isUserLoggedIn' = TRUE
                         /\ m_currentUserId' = r.id
                         /\ m_currentUserName' = username
                         /\ m_currentUserEmail' = r.email
                         /\ Return("userLogin", TRUE, "ok",
                                   <<Sig("userLoginStateChanged", TRUE, ""),
                                     Sig("userLoginSuccess", TRUE, username),
                                     operateResult(TRUE, "logged_in")>>)
    /\ UNCHANGED <<storeVars, dbOpen, adminVars>>

\* A logout that refuses when nobody is logged in.
userLogout_OnlyWhenLoggedIn ==
    /\ pending.op = "userLogout"
    /\ IF m_isUserLoggedIn
       THEN /\ m_isUserLoggedIn' = FALSE
            /\ m_currentUserId' = -1
            /\ m_currentUserName' = ""
            /\ m_currentUserEmail' = <<>>
            /\ Return("userLogout", TRUE, "logged_out",
                      <<Sig("userLoginStateChanged", FALSE, ""),
                        Sig("userLogoutSuccess", TRUE, ""),
                        operateResult(TRUE, "logged_out")>>)
       ELSE /\ UNCHANGED userVars
            /\ Return("userLogout", FALSE, "not_logged_in",
                      <<operateResult(FALSE, "not_logged_in")>>)
    /\ UNCHANGED <<storeVars, dbOpen, adminVars>>

userLogout ==
    /\ pending.op = "userLogout"
    /\ m_isUserLoggedIn' = FALSE
    /\ m_currentUserId' = -1
    /\ m_currentUserName' = ""
    /\ m_currentUserEmail' = <<>>
    /\ Return("userLogout", TRUE, "logged_out",
              <<Sig("userLoginStateChanged", FALSE, ""),
                Sig("userLogoutSuccess", TRUE, ""),
                operateResult(TRUE, "logged_out")>>)
    /\ UNCHANGED <<storeVars, dbOpen, adminVars>>

isUserLoggedIn == m_isUserLoggedIn
getCurrentUserId == m_currentUserId
isAdminLoggedIn == m_isAdminLoggedIn

-----------------------------------------------------------------------------
(* Specification of the connection manager and the two sessions            *)

\* The admin table is filled outside this program; the Password column holds
\* either the password or its digest.
AdminTables ==
    {{[Aid |-> 1, Admin_name |-> "root", Password |-> v]} :
        v \in {RootPassword, encryptPassword(RootPassword)}}

\* The state after construction of DBManager: members as the constructor's
\* initialiser list leaves them, connection closed.
InitMembers ==
    /\ dbOpen = FALSE
    /\ m_isAdminLoggedIn = FALSE
    /\ m_currentAdminId = -1
    /\ m_currentAdminName = ""
    /\ m_isUserLoggedIn = FALSE
    /\ m_currentUserId = -1
    /\ m_currentUserName = ""
    /\ m_currentUserEmail = <<>>
    /\ pending = Idle
    /\ last = [op |-> "constructor", ret |-> TRUE, msg |-> "", events |-> <<>>]

\* The page Discovery.qml is not loaded: its properties hold their initial
\* values (Discovery.qml lines 8-9) and the card shows nothing.
NoCard == 0
PageNotLoaded ==
    /\ posts_list = <<>>
    /\ current_post_index = 0
    /\ card_id = NoCard
    /\ feedLast = "none"

\* The classes with a static m_instance and a static m_mutex.
Classes == {"DBManager", "DBUser"}

\* DBUser::DBUser: no database handle yet, nobody logged in.
NewDBUser ==
    [m_db |-> "invalid", m_isUserLoggedIn |-> FALSE, m_currentUserId |-> -1,
     m_currentUsername |-> <<>>]

\* One thread, the UI's: the singletons exist, no call is split into steps
\* and DBUser is not used.
SingleThreaded ==
    /\ dbUser = NewDBUser
    /\ user_info = {}
    /\ thr = <<>>
    /\ locks = [c \in Classes |-> 0]
    /\ m_instance = [c \in Classes |-> 1]
    /\ constructed = [c \in Classes |-> 1]

Init ==
    /\ flight = [x \in {} |-> x]
    /\ t_users = {}
    /\ userTableExists \in BOOLEAN
    /\ admin_info \in AdminTables
    /\ InitMembers
    /\ posts = {} /\ assigned = 0
    /\ PageNotLoaded
    /\ SingleThreaded

\* The UI issues a call; the handler runs to completion before the next one.
InvokeSession ==
    /\ pending = Idle
    /\ pending' \in SessionCalls
    /\ last' = Running
    /\ UNCHANGED <<storeVars, dbOpen, adminVars, userVars, feedVars, threadVars>>

Next ==
    \/ InvokeSession
    \/ connectDB
    \/ disconnectDB
    \/ verifyAdminLogin
    \/ adminLogout
    \/ userRegister
    \/ userLogin
    \/ userLogout

Spec == Init /\ [][Next]_vars

-----------------------------------------------------------------------------
(* Session states                                                          *)

AdminLoggedOut ==
    ~m_isAdminLoggedIn /\ m_currentAdminId = -1 /\ m_currentAdminName = ""
UserLoggedOut ==
    /\ ~m_isUserLoggedIn /\ m_currentUserId = -1
    /\ m_currentUserName = "" /\ m_currentUserEmail = <<>>

\* C1: whenever disconnectDB has just returned, the connection is closed and
\* both the admin session and the user session are unauthenticated with their
\* fields cleared.
C1_DisconnectResetsBothSessions ==
    (pending = Idle /\ last.op = "disconnectDB")
        => (~dbOpen /\ AdminLoggedOut /\ UserLoggedOut)

-----------------------------------------------------------------------------
(* Flight repository                                                       *)

FlightIdInputs == {"", "F1", "F2"}
DepartureInputs == {"", "PEK"}
DestinationInputs == {"", "SHA"}
TimeInputs == {"tomorrow noon", "2025-01-01 10:00:00", "2025-01-01 12:00:00"}
\* Prices in thousandths: -0.010, 0, 0.004, 0.010, 0.020.
PriceInputs == {-10, 0, 4, 10, 20}
TotalSeatsInputs == 0..MaxSeats
RemainSeatsInputs == -1..(MaxSeats + 1)

EmptyTable == [x \in {} |-> x]

\* QDateTime::fromString(s, "yyyy-MM-dd HH:mm:ss"): the hour of 2025-01-01 the
\* string denotes, or InvalidDateTime when it does not match the pattern.
InvalidDateTime == -1
fromString(dateStr) ==
    CASE dateStr = "2025-01-01 10:00:00" -> 10
      [] dateStr = "2025-01-01 12:00:00" -> 12
      [] OTHER -> InvalidDateTime
isValidDateTimeFormat(dateStr) == fromString(dateStr) # InvalidDateTime

\* query.bindValue(":price", price) into the decimal(10,2) column: the double
\* is rounded to two decimals (hundredths are multiples of 10 thousandths).
toDecimal2(price) ==
    IF price >= 0 THEN ((price + 5) \div 10) * 10
    ELSE -((((-price) + 5) \div 10) * 10)

\* The checks of addFlight without the check of the seat counts.
addFlightRejection_NoSeatsCheck(f) ==
    IF f.flightId = "" \/ f.departure = "" \/ f.destination = ""
    THEN "empty_fields"
    ELSE IF ~isValidDateTimeFormat(f.departTime) \/ ~isValidDateTimeFormat(f.arriveTime)
    THEN "bad_time_format"
    ELSE IF fromString(f.departTime) >= fromString(f.arriveTime)
    THEN "time_order"
    ELSE IF f.price <= 0
    THEN "price_not_positive"
    ELSE ""

\* The checks of addFlight before it touches the store, in the code's order;
\* "" when all pass.
addFlightRejection(f) ==
    IF f.flightId = "" \/ f.departure = "" \/ f.destination = ""
    THEN "empty_fields"
    ELSE IF ~isValidDateTimeFormat(f.departTime) \/ ~isValidDateTimeFormat(f.arriveTime)
    THEN "bad_time_format"
    ELSE IF fromString(f.departTime) >= fromString(f.arriveTime)
    THEN "time_order"
    ELSE IF f.price <= 0
    THEN "price_not_positive"
    ELSE IF f.totalSeats <= 0 \/ f.remainSeats < 0 \/ f.remainSeats > f.totalSeats
    THEN "bad_seats"
    ELSE ""

\* The row an INSERT of f's bound values stores.
flightRow(f) ==
    [Departure |-> f.departure, Destination |-> f.destination,
     depart_time |-> fromString(f.departTime),
     arrive_time |-> fromString(f.arriveTime),
     price |-> toDecimal2(f.price),
     total_seats |-> f.totalSeats, remain_seats |-> f.remainSeats]

\* The forms the UI submits to addFlight.  The handler returns at its first
\* failing check without reading the later arguments, so a form varies an
\* argument only if the arguments before it pass their checks: every path
\* through the handler is taken with every combination of the arguments read
\* on it, the arguments not read staying at the value of DefaultForm.
DefaultForm ==
    [op |-> "addFlight", flightId |-> "F1", departure |-> "PEK",
     destination |-> "SHA", departTime |-> "2025-01-01 10:00:00",
     arriveTime |-> "2025-01-01 12:00:00", price |-> 10,
     totalSeats |-> 1, remainSeats |-> 1]
FormsByStrings ==
    {[DefaultForm EXCEPT !.flightId = i, !.departure = d, !.destination = s] :
        i \in FlightIdInputs, d \in DepartureInputs, s \in DestinationInputs}
FormsByTimes ==
    {[g EXCEPT !.departTime = a, !.arriveTime = b] :
        g \in {h \in FormsByStrings :
                  h.flightId # "" /\ h.departure # "" /\ h.destination # ""},
        a \in TimeInputs, b \in TimeInputs}
FormsByPrice ==
    {[g EXCEPT !.price = p] :
        g \in {h \in FormsByTimes :
                  /\ isValidDateTimeFormat(h.departTime)
                  /\ isValidDateTimeFormat(h.arriveTime)
                  /\ fromString(h.departTime) < fromString(h.arriveTime)},
        p \in PriceInputs}
FormsBySeats ==
    {[g EXCEPT !.totalSeats = t, !.remainSeats = r] :
        g \in {h \in FormsByPrice : h.price > 0},
        t \in TotalSeatsInputs, r \in RemainSeatsInputs}
FlightForms == FormsByStrings \cup FormsByTimes \cup FormsByPrice \cup FormsBySeats

FlightCalls ==
    FlightForms
    \cup {[op |-> "updateFlightPrice", Flight_id |-> i, newPrice |-> p] :
             i \in FlightIdInputs, p \in PriceInputs}
    \cup {[op |-> "updateFlightSeats", Flight_id |-> i, newRemainSeats |-> n] :
             i \in FlightIdInputs, n \in RemainSeatsInputs}
    \cup {[op |-> "deleteFlight", Flight_id |-> i] : i \in FlightIdInputs}
    \cup {[op |-> "queryFlightByNum", flightId |-> i] : i \in FlightIdInputs}
    \cup {[op |-> "queryAllFlights"]}

\* Outcomes of one prepared statement: it runs, prepare() fails, exec() fails.
StatementOutcomes == {"ok", "prepare_failed", "exec_failed"}

\* numRowsAffected() of an UPDATE matching the row of `id`: a row whose value
\* does not change is counted or not, depending on the driver's setting.
rowsAffected(id, changes, countsUnchanged) ==
    IF id \notin DOMAIN flight THEN 0
    ELSE IF changes \/ countsUnchanged THEN 1 ELSE 0

\* A flight table without a key on Flight_id: no INSERT is refused.
primaryKeyRejects_Never(table, id) == FALSE
\* Flight_id is the primary key of table flight: the store refuses an INSERT
\* whose Flight_id is already stored.
primaryKeyRejects(table, id) == id \in DOMAIN table

\* INSERT INTO flight, DELETE FROM flight WHERE Flight_id = :Flight_id.
insertFlight(id, row) ==
    [x \in DOMAIN flight \cup {id} |-> IF x = id THEN row ELSE flight[x]]
\* A DELETE FROM flight without its WHERE clause.
removeFlight_EveryRow(id) ==
    [x \in {} |-> flight[x]]
removeFlight(id) ==
    [x \in DOMAIN flight \ {id} |-> flight[x]]

\* A price check that lets a price of zero through.
priceRejected_ZeroAllowed(newPrice) == newPrice < 0

\* if (newPrice <= 0) of updateFlightPrice.
priceRejected(newPrice) == newPrice <= 0

\* A seat check without the lower bound.
seatsRejected_NoLowerBound(newRemainSeats, total_seats) ==
    newRemainSeats > total_seats

\* if (newRemainSeats < 0 || newRemainSeats > total_seats) of updateFlightSeats.
seatsRejected(newRemainSeats, total_seats) ==
    newRemainSeats < 0 \/ newRemainSeats > total_seats

addFlight ==
    /\ pending.op = "addFlight"
    /\ LET f == pending
           Fail(msg) ==
               /\ UNCHANGED flight
               /\ Return("addFlight", FALSE, msg, <<operateResult(FALSE, msg)>>)
       IN IF ~dbOpen THEN Fail("not_connected")
          ELSE IF addFlightRejection(f) # "" THEN Fail(addFlightRejection(f))
          ELSE \E checkOk \in BOOLEAN, ins \in StatementOutcomes :
               IF checkOk /\ f.flightId \in DOMAIN flight THEN Fail("duplicate_id")
               ELSE IF ins = "prepare_failed" THEN Fail("prepare_failed")
               ELSE IF ins = "ok" /\ ~primaryKeyRejects(flight, f.flightId)
               THEN /\ flight' = insertFlight(f.flightId, flightRow(f))
                    /\ Return("addFlight", TRUE, "added",
                              <<operateResult(TRUE, "added")>>)
               ELSE Fail("store_error")
    /\ UNCHANGED <<t_users, userTableExists, admin_info, dbOpen, adminVars, userVars>>

\* Rows a writer outside this process stores.
ExternalRows == {flightRow([DefaultForm EXCEPT !.departure = "CAN"])}

\* addFlight overtaken by a writer outside this process: the pre-check SELECT
\* finds no row of the id, the other writer then stores one, and the INSERT of
\* addFlight meets it.
addFlightRaced ==
    /\ pending.op = "addFlight"
    /\ dbOpen
    /\ addFlightRejection(pending) = ""
    /\ pending.flightId \notin DOMAIN flight
    /\ \E w \in ExternalRows, ins \in StatementOutcomes :
          LET f == pending
              stored == insertFlight(f.flightId, w)
              Fail(msg) ==
                  /\ flight' = stored
                  /\ Return("addFlight", FALSE, msg, <<operateResult(FALSE, msg)>>)
          IN IF ins = "prepare_failed" THEN Fail("prepare_failed")
             ELSE IF ins = "ok" /\ ~primaryKeyRejects(stored, f.flightId)
             THEN /\ flight' = [stored EXCEPT ![f.flightId] = flightRow(f)]
                  /\ Return("addFlight", TRUE, "added",
                            <<operateResult(TRUE, "added")>>)
             ELSE Fail("store_error")
    /\ UNCHANGED <<t_users, userTableExists, admin_info, dbOpen, adminVars, userVars>>

updateFlightPrice ==
    /\ pending.op = "updateFlightPrice"
    /\ LET id == pending.Flight_id
           newPrice == pending.newPrice
           Fail(msg) ==
               /\ UNCHANGED flight
               /\ Return("updateFlightPrice", FALSE, msg,
                         <<operateResult(FALSE, msg)>>)
       IN IF ~dbOpen THEN Fail("not_connected")
          ELSE IF priceRejected(newPrice) THEN Fail("price_not_positive")
          ELSE \E upd \in StatementOutcomes, countsUnchanged \in BOOLEAN :
               IF upd = "prepare_failed" THEN Fail("prepare_failed")
               ELSE IF upd = "exec_failed" THEN Fail("store_error")
               ELSE LET rows == rowsAffected(id,
                                    id \in DOMAIN flight
                                        /\ flight[id].price # toDecimal2(newPrice),
                                    countsUnchanged)
                    IN IF rows > 0
                       THEN /\ flight' = [flight EXCEPT ![id].price = toDecimal2(newPrice)]
                            /\ Return("updateFlightPrice", TRUE, "price_updated",
                                      <<operateResult(TRUE, "price_updated")>>)
                       ELSE Fail("not_found")
    /\ UNCHANGED <<t_users, userTableExists, admin_info, dbOpen, adminVars, userVars>>

updateFlightSeats ==
    /\ pending.op = "updateFlightSeats"
    /\ LET id == pending.Flight_id
           newRemainSeats == pending.newRemainSeats
           Fail(msg) ==
               /\ UNCHANGED flight
               /\ Return("updateFlightSeats", FALSE, msg,
                         <<operateResult(FALSE, msg)>>)
       IN IF ~dbOpen THEN Fail("not_connected")
          ELSE \E selOk \in BOOLEAN :
               IF ~selOk \/ id \notin DOMAIN flight THEN Fail("not_found")
               ELSE IF seatsRejected(newRemainSeats, flight[id].total_seats)
               THEN Fail("bad_seats")
               ELSE \E upd \in StatementOutcomes, countsUnchanged \in BOOLEAN :
                    IF upd = "prepare_failed" THEN Fail("prepare_failed")
                    ELSE IF upd = "exec_failed" THEN Fail("store_error")
                    ELSE LET rows == rowsAffected(id,
                                         flight[id].remain_seats # newRemainSeats,
                                         countsUnchanged)
                         IN /\ flight' = [flight EXCEPT ![id].remain_seats = newRemainSeats]
                            /\ IF rows > 0
                               THEN Return("updateFlightSeats", TRUE, "seats_updated",
                                           <<operateResult(TRUE, "seats_updated")>>)
                               \* success stays true: the failure is only emitted
                               ELSE Return("updateFlightSeats", TRUE, "store_error",
                                           <<operateResult(FALSE, "store_error")>>)
    /\ UNCHANGED <<t_users, userTableExists, admin_info, dbOpen, adminVars, userVars>>

deleteFlight ==
    /\ pending.op = "deleteFlight"
    /\ LET id == pending.Flight_id
           Fail(msg) ==
               /\ UNCHANGED flight
               /\ Return("deleteFlight", FALSE, msg, <<operateResult(FALSE, msg)>>)
       IN IF ~dbOpen THEN Fail("not_connected")
          ELSE \E del \in StatementOutcomes :
               IF del = "prepare_failed" THEN Fail("prepare_failed")
               ELSE IF del = "exec_failed" THEN Fail("store_error")
               ELSE IF id \in DOMAIN flight
               THEN /\ flight' = removeFlight(id)
                    /\ Return("deleteFlight", TRUE, "deleted",
                              <<operateResult(TRUE, "deleted")>>)
               ELSE Fail("not_found")
    /\ UNCHANGED <<t_users, userTableExists, admin_info, dbOpen, adminVars, userVars>>

\* QDateTime::toString("yyyy-MM-dd HH:mm:ss") of a stored time; an invalid
\* QDateTime gives the empty string.
toString(dt) ==
    CASE dt = 10 -> "2025-01-01 10:00:00"
      [] dt = 12 -> "2025-01-01 12:00:00"
      [] OTHER -> ""

\* The QVariantMap the two queries build from a row.
flightMap(id) ==
    [flightId |-> id, departure |-> flight[id].Departure,
     destination |-> flight[id].Destination,
     departTime |-> toString(flight[id].depart_time),
     arriveTime |-> toString(flight[id].arrive_time),
     price |-> flight[id].price,
     totalSeats |-> flight[id].total_seats,
     remainSeats |-> flight[id].remain_seats]
\* A default-constructed QVariantMap, a default-constructed QVariantList.
EmptyMap == [k \in {} |-> k]
EmptyList == <<>>

\* A query returns its result to the UI.
ReturnResult(op, result, ret, msg, events) ==
    /\ last' = [op |-> op, ret |-> ret, msg |-> msg, events |-> events,
                result |-> result]
    /\ pending' = Idle
    /\ UNCHANGED <<feedVars, threadVars>>

\* The row sequences SELECT ... ORDER BY depart_time DESC can deliver: rows
\* with equal depart_time come in any order.
OrderedByDepartTimeDesc ==
    LET n == Cardinality(DOMAIN flight)
    IN {ids \in [1..n -> DOMAIN flight] :
           /\ \A i \in 1..n, j \in 1..n : i # j => ids[i] # ids[j]
           /\ \A i \in 1..n, j \in 1..n :
                 i < j => flight[ids[i]].depart_time >= flight[ids[j]].depart_time}

\* A queryAllFlights that runs its statement without testing the handle.
queryAllFlights_NoConnectionCheck ==
    /\ pending.op = "queryAllFlights"
    /\ \E q \in StatementOutcomes :
          IF q = "prepare_failed"
          THEN ReturnResult("queryAllFlights", EmptyList, FALSE, "prepare_failed",
                            <<operateResult(FALSE, "prepare_failed")>>)
          ELSE IF q = "exec_failed" \/ ~dbOpen
          THEN ReturnResult("queryAllFlights", EmptyList, FALSE, "store_error",
                            <<operateResult(FALSE, "store_error")>>)
          ELSE \E ids \in OrderedByDepartTimeDesc :
                  ReturnResult("queryAllFlights",
                               [i \in DOMAIN ids |-> flightMap(ids[i])],
                               TRUE, "listed", <<operateResult(TRUE, "listed")>>)
    /\ UNCHANGED <<storeVars, dbOpen, adminVars, userVars>>

queryAllFlights ==
    /\ pending.op = "queryAllFlights"
    /\ IF ~dbOpen
       THEN ReturnResult("queryAllFlights", EmptyList, FALSE, "not_connected",
                         <<operateResult(FALSE, "not_connected")>>)
       ELSE \E q \in StatementOutcomes :
          IF q = "prepare_failed"
          THEN ReturnResult("queryAllFlights", EmptyList, FALSE, "prepare_failed",
                            <<operateResult(FALSE, "prepare_failed")>>)
          ELSE IF q = "exec_failed"
          THEN ReturnResult("queryAllFlights", EmptyList, FALSE, "store_error",
                            <<operateResult(FALSE, "store_error")>>)
          ELSE \E ids \in OrderedByDepartTimeDesc :
                  ReturnResult("queryAllFlights",
                               [i \in DOMAIN ids |-> flightMap(ids[i])],
                               TRUE, "listed", <<operateResult(TRUE, "listed")>>)
    /\ UNCHANGED <<storeVars, dbOpen, adminVars, userVars>>

\* queryFlightByNum: `query.exec() && query.next()` fills the map; its else
\* branch is taken both when exec() fails and when no row has the id.
queryFlightByNum ==
    /\ pending.op = "queryFlightByNum"
    /\ LET id == pending.flightId
       IN IF ~dbOpen
          THEN ReturnResult("queryFlightByNum", EmptyMap, FALSE, "not_connected",
                            <<operateResult(FALSE, "not_connected")>>)
          ELSE \E q \in StatementOutcomes :
             IF q = "prepare_failed"
             THEN ReturnResult("queryFlightByNum", EmptyMap, FALSE, "prepare_failed",
                               <<operateResult(FALSE, "prepare_failed")>>)
             ELSE IF q = "ok" /\ id \in DOMAIN flight
             THEN ReturnResult("queryFlightByNum", flightMap(id), TRUE, "found",
                               <<operateResult(TRUE, "found")>>)
             ELSE ReturnResult("queryFlightByNum", EmptyMap, FALSE,
                               "not_found_or_query_failed",
                               <<operateResult(FALSE, "not_found_or_query_failed")>>)
    /\ UNCHANGED <<storeVars, dbOpen, adminVars, userVars>>

-----------------------------------------------------------------------------
(* Specification of the flight repository                                  *)

\* A deployed store: the user table exists and holds one registered user, the
\* admin table holds the administrator; no flight yet.
InitFlight ==
    /\ flight = EmptyTable
    /\ t_users = {[id |-> 1, email |-> EmailA, username |-> "alice",
                   password |-> encryptPassword(PwStrong)]}
    /\ userTableExists = TRUE
    /\ admin_info = {[Aid |-> 1, Admin_name |-> "root", Password |-> RootPassword]}
    /\ InitMembers
    /\ posts = {} /\ assigned = 0
    /\ PageNotLoaded
    /\ SingleThreaded

FlightSessionCalls ==
    {[op |-> "connectDB"], [op |-> "disconnectDB"],
     [op |-> "adminLogout"], [op |-> "userLogout"],
     [op |-> "verifyAdminLogin", adminName |-> "root", password |-> RootPassword],
     [op |-> "userLogin", username |-> "alice", password |-> PwStrong],
     [op |-> "userRegister", email |-> EmailA, username |-> "alice",
      password |-> PwStrong],
     [op |-> "userRegister", email |-> <<>>, username |-> "", password |-> <<>>]}

InvokeFlight ==
    /\ pending = Idle
    /\ pending' \in FlightCalls \cup FlightSessionCalls
    /\ last' = Running
    /\ UNCHANGED <<storeVars, dbOpen, adminVars, userVars, feedVars, threadVars>>

NextFlight ==
    \/ InvokeFlight
    \/ connectDB
    \/ disconnectDB
    \/ verifyAdminLogin
    \/ adminLogout
    \/ userLogin
    \/ userLogout
    \/ addFlight
    \/ updateFlightPrice
    \/ updateFlightSeats
    \/ deleteFlight
    \/ queryAllFlights
    \/ queryFlightByNum
    \/ userRegister

SpecFlight == InitFlight /\ [][NextFlight]_vars

-----------------------------------------------------------------------------
(* Properties of the flight repository                                     *)

\* The step on which the handler of `op` runs: `pending` holds the arguments,
\* the unprimed variables the state before the call, last' the outcome.
Handles(op) == pending.op = op /\ pending' = Idle

\* Reasons that report a failed statement rather than a violated rule.
StoreErrorReasons == {"prepare_failed", "store_error"}

WellFormedTimes(f) ==
    isValidDateTimeFormat(f.departTime) /\ isValidDateTimeFormat(f.arriveTime)
NonEmptyStrings(f) == f.flightId # "" /\ f.departure # "" /\ f.destination # ""

\* The conditions of the claim on a form f, in the state before the call.
ClaimedAddConditions(f) ==
    /\ fromString(f.departTime) < fromString(f.arriveTime)
    /\ f.price > 0
    /\ 0 <= f.remainSeats /\ f.remainSeats <= f.totalSeats
    /\ f.flightId \notin DOMAIN flight
    /\ NonEmptyStrings(f)

\* The rule of the claim that f violates first, in the order the handler
\* reports them.
FirstViolatedRule(f) ==
    IF ~NonEmptyStrings(f) THEN "empty_fields"
    ELSE IF fromString(f.departTime) >= fromString(f.arriveTime) THEN "time_order"
    ELSE IF f.price <= 0 THEN "price_not_positive"
    ELSE IF f.totalSeats <= 0 \/ f.remainSeats < 0 \/ f.remainSeats > f.totalSeats
    THEN "bad_seats"
    ELSE IF f.flightId \in DOMAIN flight THEN "duplicate_id"
    ELSE ""

\* The row "f" as submitted, and as the store keeps it (price to the cent).
SubmittedRow(f) ==
    [Departure |-> f.departure, Destination |-> f.destination,
     depart_time |-> fromString(f.departTime),
     arrive_time |-> fromString(f.arriveTime),
     price |-> f.price,
     total_seats |-> f.totalSeats, remain_seats |-> f.remainSeats]
ToTheCent(price) == 10 * ((price + 5) \div 10)
KeptRow(f) == [SubmittedRow(f) EXCEPT !.price = ToTheCent(f.price)]

TableWith(id, row) ==
    [x \in DOMAIN flight \cup {id} |-> IF x = id THEN row ELSE flight[x]]

\* C5 as stated: with the connection open and both timestamps well-formed,
\* addFlight(f) succeeds iff depart < arrive, price > 0, 0 <= remain <= total,
\* the id is unused and the three strings are non-empty; on success exactly
\* the row f is added, on failure a violated rule is reported and the table is
\* unchanged.
C5_AddFlightIffAsStated ==
    [][(Handles("addFlight") /\ dbOpen /\ WellFormedTimes(pending)) =>
          LET f == pending
          IN /\ last'.ret = ClaimedAddConditions(f)
             /\ last'.ret => flight' = TableWith(f.flightId, SubmittedRow(f))
             /\ ~last'.ret => (flight' = flight /\ last'.msg = FirstViolatedRule(f))
      ]_vars

\* C5 amended: with the connection open and both timestamps well-formed,
\* addFlight(f) succeeds only if depart < arrive, price > 0, total > 0,
\* 0 <= remain <= total, the id is unused and the strings are non-empty; under
\* these conditions it succeeds unless a statement fails in the store, which
\* it then reports; on success exactly one row is added, holding f's values
\* with the price rounded to the cent; on failure the table is unchanged and
\* the first violated rule is reported, or the store error.
C5_AddFlightIff ==
    [][(Handles("addFlight") /\ dbOpen /\ WellFormedTimes(pending)) =>
          LET f == pending
              conditions == ClaimedAddConditions(f) /\ f.totalSeats > 0
          IN /\ last'.ret => conditions
             /\ conditions => (last'.ret \/ last'.msg \in StoreErrorReasons)
             /\ last'.ret => flight' = TableWith(f.flightId, KeptRow(f))
             /\ ~last'.ret =>
                   /\ flight' = flight
                   /\ \/ last'.msg \in StoreErrorReasons
                      \/ /\ ~conditions
                         /\ last'.msg = FirstViolatedRule(f)
      ]_vars

\* addFlight has returned success, F1 and F2 are stored and F1 has the most
\* seats a form can ask for.
C5_Witness ==
    /\ pending = Idle /\ last.op = "addFlight" /\ last.ret
    /\ "F2" \in DOMAIN flight /\ "F1" \in DOMAIN flight
    /\ flight["F1"].total_seats = MaxSeats

\* C6: every stored flight has price > 0, total-seats > 0,
\* 0 <= remain-seats <= total-seats and depart-time < arrive-time.
C6_StoredFlightsValid ==
    \A id \in DOMAIN flight :
        /\ flight[id].price > 0
        /\ flight[id].total_seats > 0
        /\ 0 <= flight[id].remain_seats
        /\ flight[id].remain_seats <= flight[id].total_seats
        /\ flight[id].depart_time < flight[id].arrive_time


\* C7 as stated: with the connection open, for an existing flight with
\* total-seats T updateFlightSeats(id, n) returns success iff 0 <= n <= T, and
\* then only remain-seats of that flight changes, to n; for an id that is not
\* stored it fails with the not-found reason and changes nothing.
C7_UpdateSeatsAsStated ==
    [][(Handles("updateFlightSeats") /\ dbOpen) =>
          LET id == pending.Flight_id
              n == pending.newRemainSeats
          IN IF id \in DOMAIN flight
             THEN /\ last'.ret = (0 <= n /\ n <= flight[id].total_seats)
                  /\ last'.ret => flight' = [flight EXCEPT ![id].remain_seats = n]
             ELSE /\ ~last'.ret /\ last'.msg = "not_found"
                  /\ flight' = flight
      ]_vars

\* C7 amended: with the connection open, for an existing flight with
\* total-seats T updateFlightSeats(id, n) returns success only if 0 <= n <= T;
\* for 0 <= n <= T it returns success unless the SELECT or the UPDATE fails in
\* the store, and it then reports not-found (SELECT) or the store error
\* (UPDATE) and changes nothing; on success only remain-seats of that flight
\* changes, to n; a call that returns failure changes nothing; for an id that
\* is not stored it fails with the not-found reason and changes nothing.
C7_UpdateSeats ==
    [][(Handles("updateFlightSeats") /\ dbOpen) =>
          LET id == pending.Flight_id
              n == pending.newRemainSeats
          IN IF id \in DOMAIN flight
             THEN /\ last'.ret => (0 <= n /\ n <= flight[id].total_seats)
                  /\ (0 <= n /\ n <= flight[id].total_seats) =>
                        \/ last'.ret
                        \/ last'.msg \in StoreErrorReasons \cup {"not_found"}
                  /\ last'.ret => flight' = [flight EXCEPT ![id].remain_seats = n]
                  /\ ~last'.ret => flight' = flight
             ELSE /\ ~last'.ret /\ last'.msg = "not_found"
                  /\ flight' = flight
      ]_vars

\* updateFlightSeats has returned success and the flight holds fewer remaining
\* seats than total seats; the other flight is stored too.
C7_Witness ==
    /\ pending = Idle /\ last.op = "updateFlightSeats" /\ last.ret
    /\ DOMAIN flight = {"F1", "F2"}
    /\ flight["F1"].remain_seats < flight["F1"].total_seats

PricesOf(table) == [x \in DOMAIN table |-> table[x].price]

\* C8 as stated: updateFlightPrice(id, p) with p <= 0 fails with the
\* price-validation reason and changes no stored price; with p > 0 and no such
\* flight it fails with a not-found reason (which is not the reason of a
\* failed statement) and changes nothing; with p > 0 and an existing id it
\* sets that flight's price to p and changes nothing else.
C8_UpdatePriceAsStated ==
    [][Handles("updateFlightPrice") =>
          LET id == pending.Flight_id
              p == pending.newPrice
          IN IF p <= 0
             THEN /\ ~last'.ret /\ last'.msg = "price_not_positive"
                  /\ PricesOf(flight') = PricesOf(flight)
             ELSE IF id \notin DOMAIN flight
             THEN /\ ~last'.ret /\ last'.msg = "not_found"
                  /\ "not_found" \notin StoreErrorReasons
                  /\ flight' = flight
             ELSE flight' = [flight EXCEPT ![id].price = p]
      ]_vars

\* C8 amended: with the connection open, updateFlightPrice(id, p) with p <= 0
\* fails with the price-validation reason and changes no stored price; with
\* p > 0 and no such flight it fails and changes nothing, with the not-found
\* reason when the statement executes and with a different, store-error
\* reason when it fails; with p > 0 and an existing id it sets that flight's
\* price to p rounded to the cent and changes nothing else, unless the
\* statement fails, and then it reports the store error and changes nothing.
\* With the connection closed it fails with the not-connected reason whatever
\* p is.  A call that returns failure never changes the table.
C8_UpdatePrice ==
    [][Handles("updateFlightPrice") =>
          LET id == pending.Flight_id
              p == pending.newPrice
          IN /\ ~last'.ret => flight' = flight
             /\ IF ~dbOpen
                THEN ~last'.ret /\ last'.msg = "not_connected"
                ELSE IF p <= 0
                THEN /\ ~last'.ret /\ last'.msg = "price_not_positive"
                     /\ PricesOf(flight') = PricesOf(flight)
                ELSE IF id \notin DOMAIN flight
                THEN /\ ~last'.ret
                     /\ last'.msg \in StoreErrorReasons \cup {"not_found"}
                     /\ "not_found" \notin StoreErrorReasons
                     /\ flight' = flight
                ELSE IF last'.msg \in StoreErrorReasons
                THEN ~last'.ret /\ flight' = flight
                ELSE flight' = [flight EXCEPT ![id].price = ToTheCent(p)]
      ]_vars

\* updateFlightPrice has returned success on a stored flight whose price is
\* now 0.02, the other flight keeping 0.01.
C8_Witness ==
    /\ pending = Idle /\ last.op = "updateFlightPrice" /\ last.ret
    /\ DOMAIN flight = {"F1", "F2"}
    /\ flight["F1"].price = 20 /\ flight["F2"].price = 10

TableWithout(id) == [x \in DOMAIN flight \ {id} |-> flight[x]]

\* C9 as stated: deleteFlight(id) on an existing id removes exactly that
\* flight and changes no other flight and neither session; on an id that is
\* not stored it fails with the not-found reason and changes nothing.
C9_DeleteFlightAsStated ==
    [][Handles("deleteFlight") =>
          LET id == pending.Flight_id
          IN /\ UNCHANGED <<adminVars, userVars>>
             /\ IF id \in DOMAIN flight
                THEN flight' = TableWithout(id)
                ELSE /\ ~last'.ret /\ last'.msg = "not_found"
                     /\ flight' = flight
      ]_vars

\* C9 amended: with the connection open and the DELETE statement executing,
\* deleteFlight(id) on an existing id returns success and removes exactly that
\* flight, and on an id that is not stored it fails with the not-found reason
\* and leaves the table unchanged; in every case (connection closed or
\* statement failing included) a call that returns failure leaves the table
\* unchanged, and no call changes another flight or either session.
C9_DeleteFlight ==
    [][Handles("deleteFlight") =>
          LET id == pending.Flight_id
          IN /\ UNCHANGED <<adminVars, userVars>>
             /\ ~last'.ret => flight' = flight
             /\ last'.ret => (id \in DOMAIN flight /\ flight' = TableWithout(id))
             /\ (dbOpen /\ last'.msg \notin StoreErrorReasons) =>
                   IF id \in DOMAIN flight
                   THEN last'.ret
                   ELSE ~last'.ret /\ last'.msg = "not_found"
             /\ ~dbOpen => last'.msg = "not_connected"
      ]_vars

\* deleteFlight has removed F1 while F2 stays stored and both sessions are
\* authenticated.
C9_Witness ==
    /\ pending = Idle /\ last.op = "deleteFlight" /\ last.ret
    /\ DOMAIN flight = {"F2"}
    /\ m_isAdminLoggedIn /\ m_isUserLoggedIn


-----------------------------------------------------------------------------
(* The feed and the page Discovery.qml                                     *)

MaxInitialPost == 7
MaxPublished == 1
MaxHistory == 5

\* JavaScript values of the variable `post` of the handlers.
Undefined == [kind |-> "undefined"]
EmptyObject == [kind |-> "object", keys |-> 0]
PostObject(id) == [kind |-> "object", keys |-> 1, id |-> id]

Max(S) == CHOOSE m \in S : \A x \in S : x <= m

\* DBManager.getLatestPostId(): the greatest existing id, or the sentinel -1.
getLatestPostId == IF posts = {} THEN -1 ELSE Max(posts)

\* DBManager.queryPostDetail(id, viewerId): the post, or an empty object when
\* no post has that id.
queryPostDetail(id) == IF id \in posts THEN PostObject(id) ELSE EmptyObject

\* publishPostWithPath(title, content, uid, path): on success the store
\* assigns the next id to the new post.  The page Discovery.qml takes no
\* clicks before its onLoaded has run, so feedLast stays "none" until then.
publishPostWithPath ==
    /\ feedLast # "hung"
    /\ assigned < MaxInitialPost + MaxPublished
    /\ \E stored \in BOOLEAN :
          IF stored
          THEN /\ assigned' = assigned + 1
               /\ posts' = posts \cup {assigned + 1}
               /\ feedLast' = IF feedLast = "none" THEN "none" ELSE "published"
          ELSE /\ UNCHANGED <<assigned, posts>>
               /\ feedLast' = IF feedLast = "none" THEN "none"
                              ELSE "publish_failed"
    /\ UNCHANGED <<posts_list, current_post_index, card_id>>
    /\ UNCHANGED <<coreVars, threadVars>>

\* shared_card.onLoaded
onLoaded ==
    /\ feedLast = "none"
    /\ LET latest_post == getLatestPostId
       IN IF latest_post # -1
          THEN LET post == queryPostDetail(latest_post)
               IN /\ posts_list' = Append(posts_list, post.id)
                  /\ current_post_index' = 0
                  /\ card_id' = post.id
          ELSE UNCHANGED <<posts_list, current_post_index, card_id>>
    /\ feedLast' = "loaded"
    /\ UNCHANGED <<posts, assigned, coreVars, threadVars>>

\* A history step that goes back to the first entry of the history list.
last_page_ToFirstEntry ==
    /\ feedLast \notin {"none", "hung"}
    /\ IF current_post_index > 0
       THEN /\ current_post_index' = 0
            /\ card_id' = queryPostDetail(posts_list[1]).id
            /\ feedLast' = "history"
       ELSE /\ UNCHANGED <<current_post_index, card_id>>
            /\ feedLast' = "history_start"
    /\ UNCHANGED <<posts, assigned, posts_list, coreVars, threadVars>>

\* last_page.onClicked: one step back in the history of visited posts.
last_page ==
    /\ feedLast \notin {"none", "hung"}
    /\ IF current_post_index > 0
       THEN /\ current_post_index' = current_post_index - 1
            /\ LET post == queryPostDetail(posts_list[current_post_index'+ 1])
               IN card_id' = IF post = EmptyObject THEN NoCard ELSE post.id
            /\ feedLast' = "history"
       ELSE /\ UNCHANGED <<current_post_index, card_id>>
            /\ feedLast' = "history_start"
    /\ UNCHANGED <<posts, assigned, posts_list, coreVars, threadVars>>

\* The while loop of next_page.onClicked: `returned` when the handler leaves
\* through the return of the loop, else the post the loop ends with.
RECURSIVE scan(_, _)
scan(post, index) ==
    IF ~(post = Undefined \/ post = EmptyObject)
    THEN [returned |-> FALSE, post |-> post]
    ELSE IF index = 0
    THEN [returned |-> TRUE, post |-> post]
    ELSE scan(queryPostDetail(index), index - 1)

\* next_page.onClicked.  With an empty posts_list the index is NaN, which
\* never equals 0 and selects no post: the loop does not end.
next_page ==
    /\ feedLast \notin {"none", "hung"}
    /\ Len(posts_list) < MaxHistory
    /\ IF posts_list = <<>>
       THEN /\ feedLast' = "hung"
            /\ UNCHANGED <<posts_list, current_post_index, card_id>>
       ELSE LET index == posts_list[current_post_index + 1] - 1
                end == scan(Undefined, index)
            IN IF end.returned
               THEN /\ feedLast' = "no_earlier"
                    /\ UNCHANGED <<posts_list, current_post_index, card_id>>
               ELSE /\ posts_list' = Append(posts_list, end.post.id)
                    /\ current_post_index' = current_post_index + 1
                    /\ card_id' = end.post.id
                    /\ feedLast' = "shown"
    /\ UNCHANGED <<posts, assigned, coreVars, threadVars>>

InitFeed ==
    /\ flight = EmptyTable
    /\ t_users = {}
    /\ userTableExists = TRUE
    /\ admin_info = {}
    /\ InitMembers
    /\ posts \in SUBSET (1..MaxInitialPost)
    /\ assigned = MaxInitialPost
    /\ PageNotLoaded
    /\ SingleThreaded

NextFeed ==
    \/ publishPostWithPath
    \/ onLoaded
    \/ last_page
    \/ next_page

SpecFeed == InitFeed /\ [][NextFeed]_vars

EarlierPosts == {i \in posts : i < card_id}

\* C10: a backward step (next_page) from a displayed post cur >= 1 displays
\* the greatest existing id smaller than cur, whatever ids are absent in
\* between, or reports that there is no earlier post and leaves the display
\* unchanged when no id of 1..cur-1 exists.
C10_BackwardStep ==
    [][(feedLast' \in {"shown", "no_earlier"} /\ card_id >= 1) =>
          IF EarlierPosts # {}
          THEN feedLast' = "shown" /\ card_id' = Max(EarlierPosts)
          ELSE feedLast' = "no_earlier" /\ card_id' = card_id
      ]_vars

-----------------------------------------------------------------------------
(* Threads: creation of the singletons                                     *)

NumThreads == 2
Threads == 1..NumThreads

\* A thread outside every call.
NoCall == [class |-> "none", op |-> "none"]
IdleThread == [op |-> "none", pc |-> "idle", arg |-> NoCall, rows |-> {}, ret |-> 0]

\* getInstance is entered.
getInstanceCall(t) ==
    /\ thr[t].pc = "idle" /\ thr[t].op = "none"
    /\ \E c \in Classes :
          thr' = [thr EXCEPT ![t] = [IdleThread EXCEPT !.op = "getInstance",
                                         !.arg = [class |-> c, op |-> "getInstance"],
                                         !.pc = "check"]]
    /\ UNCHANGED <<locks, m_instance, constructed, dbUser, user_info>>
    /\ UNCHANGED <<coreVars, feedVars>>

\* if (m_instance == nullptr), read without the lock while another thread may
\* be writing m_instance: the read yields the stored pointer or still nullptr.
getInstanceCheck(t) ==
    /\ thr[t].op = "getInstance" /\ thr[t].pc = "check"
    /\ \E seen \in {m_instance[thr[t].arg.class], 0} :
          thr' = [thr EXCEPT ![t].pc = IF seen = 0 THEN "lock" ELSE "return"]
    /\ UNCHANGED <<locks, m_instance, constructed, dbUser, user_info>>
    /\ UNCHANGED <<coreVars, feedVars>>

\* QMutexLocker locker(&m_mutex)
getInstanceLock(t) ==
    /\ thr[t].op = "getInstance" /\ thr[t].pc = "lock"
    /\ locks[thr[t].arg.class] = 0
    /\ locks' = [locks EXCEPT ![thr[t].arg.class] = t]
    /\ thr' = [thr EXCEPT ![t].pc = "recheck"]
    /\ UNCHANGED <<m_instance, constructed, dbUser, user_info>>
    /\ UNCHANGED <<coreVars, feedVars>>

\* A creation that takes the lock and does not look at m_instance again.
needsCreation_NoRecheck(c) == TRUE

\* The second if (m_instance == nullptr), under the lock.
needsCreation(c) == m_instance[c] = 0

getInstanceRecheck(t) ==
    /\ thr[t].op = "getInstance" /\ thr[t].pc = "recheck"
    /\ thr' = [thr EXCEPT ![t].pc = IF needsCreation(thr[t].arg.class)
                                    THEN "new" ELSE "unlock"]
    /\ UNCHANGED <<locks, m_instance, constructed, dbUser, user_info>>
    /\ UNCHANGED <<coreVars, feedVars>>

\* m_instance = new DBManager(parent): the constructor runs and the pointer
\* (the object of thread t is object t) is stored, in either order.
getInstanceNew(t) ==
    /\ thr[t].op = "getInstance"
    /\ LET c == thr[t].arg.class
       IN \/ /\ thr[t].pc = "new"
             /\ constructed' = [constructed EXCEPT ![c] = @ + 1]
             /\ thr' = [thr EXCEPT ![t].pc = "store"]
             /\ UNCHANGED m_instance
          \/ /\ thr[t].pc = "new"
             /\ m_instance' = [m_instance EXCEPT ![c] = t]
             /\ thr' = [thr EXCEPT ![t].pc = "construct"]
             /\ UNCHANGED constructed
          \/ /\ thr[t].pc = "store"
             /\ m_instance' = [m_instance EXCEPT ![c] = t]
             /\ thr' = [thr EXCEPT ![t].pc = "unlock"]
             /\ UNCHANGED constructed
          \/ /\ thr[t].pc = "construct"
             /\ constructed' = [constructed EXCEPT ![c] = @ + 1]
             /\ thr' = [thr EXCEPT ![t].pc = "unlock"]
             /\ UNCHANGED m_instance
    /\ UNCHANGED <<locks, dbUser, user_info>>
    /\ UNCHANGED <<coreVars, feedVars>>

\* The locker leaves its scope.
getInstanceUnlock(t) ==
    /\ thr[t].op = "getInstance" /\ thr[t].pc = "unlock"
    /\ locks' = [locks EXCEPT ![thr[t].arg.class] = 0]
    /\ thr' = [thr EXCEPT ![t].pc = "return"]
    /\ UNCHANGED <<m_instance, constructed, dbUser, user_info>>
    /\ UNCHANGED <<coreVars, feedVars>>

\* return m_instance
getInstanceReturn(t) ==
    /\ thr[t].op = "getInstance" /\ thr[t].pc = "return"
    /\ thr' = [thr EXCEPT ![t].pc = "returned", ![t].ret = m_instance[thr[t].arg.class]]
    /\ UNCHANGED <<locks, m_instance, constructed, dbUser, user_info>>
    /\ UNCHANGED <<coreVars, feedVars>>

InitInst ==
    /\ flight = EmptyTable
    /\ t_users = {}
    /\ userTableExists = TRUE
    /\ admin_info = {}
    /\ InitMembers
    /\ posts = {} /\ assigned = 0
    /\ PageNotLoaded
    /\ thr = [t \in Threads |-> IdleThread]
    /\ locks = [c \in Classes |-> 0]
    /\ m_instance = [c \in Classes |-> 0]
    /\ constructed = [c \in Classes |-> 0]
    /\ dbUser = NewDBUser
    /\ user_info = {}

NextInst ==
    \/ \E t \in Threads : getInstanceCall(t)
    \/ \E t \in Threads : getInstanceCheck(t)
    \/ \E t \in Threads : getInstanceLock(t)
    \/ \E t \in Threads : getInstanceRecheck(t)
    \/ \E t \in Threads : getInstanceNew(t)
    \/ \E t \in Threads : getInstanceUnlock(t)
    \/ \E t \in Threads : getInstanceReturn(t)

SpecInst == InitInst /\ [][NextInst]_vars

\* C4: whatever the interleaving of the threads' first calls to
\* getInstance(), the constructor of each class runs at most once, and all
\* callers of a class that have returned hold the same, non-null instance.
C4_SingleInstance ==
    /\ \A c \in Classes : constructed[c] <= 1
    /\ \A t, u \in Threads :
          (/\ thr[t].pc = "returned" /\ thr[u].pc = "returned"
           /\ thr[t].arg.class = thr[u].arg.class)
             => (thr[t].ret = thr[u].ret /\ thr[t].ret # 0)

\* Two threads made first calls for DBManager and both passed the unlocked
\* check before the instance existed: thread 1 has constructed it and
\* returned, thread 2 has re-checked under the lock and constructs nothing.
C4_Witness ==
    /\ thr[1].pc = "returned" /\ thr[1].arg.class = "DBManager" /\ thr[1].ret = 1
    /\ thr[2].pc = "unlock" /\ thr[2].arg.class = "DBManager"
    /\ locks["DBManager"] = 2
    /\ m_instance["DBManager"] = 1
    /\ constructed["DBManager"] = 1

-----------------------------------------------------------------------------
(* Threads: calls into DBManager and DBUser                                *)

\* The calls the threads make.  A call of DBManager other than adminLogout
\* and verifyAdminLogin runs its handler in one step while it holds the lock;
\* these two are split at their reads and writes of the admin session.
DBManagerCalls ==
    {[class |-> "DBManager", op |-> "connectDB"],
     [class |-> "DBManager", op |-> "disconnectDB"],
     [class |-> "DBManager", op |-> "adminLogout"],
     [class |-> "DBManager", op |-> "userLogout"],
     [class |-> "DBManager", op |-> "userLogin",
      username |-> "alice", password |-> PwStrong],
     [class |-> "DBManager", op |-> "updateFlightSeats",
      Flight_id |-> "F1", newRemainSeats |-> 0]}
    \cup {[class |-> "DBManager", op |-> "verifyAdminLogin",
           adminName |-> "root", password |-> p] :
             p \in {RootPassword, <<"w", "r", "o", "n", "g">>}}
DBUserCalls ==
    {[class |-> "DBUser", op |-> "setDatabase"],
     [class |-> "DBUser", op |-> "createUserTable"],
     [class |-> "DBUser", op |-> "userLogout"]}
    \cup {[class |-> "DBUser", op |-> "verifyUserLogin",
           username |-> NameAlice, password |-> p] : p \in {PwStrong, PwStrong2}}

SplitCalls == {"verifyAdminLogin", "adminLogout"}
RunsHandler(t) ==
    thr[t].arg.class = "DBManager" /\ thr[t].op \notin SplitCalls

\* A thread enters a public operation.  adminLogout has no QMutexLocker: its
\* first statement is the write of m_isAdminLoggedIn.
mtCall(t) ==
    /\ thr[t].pc = "idle"
    /\ \E call \in DBManagerCalls \cup DBUserCalls :
          thr' = [thr EXCEPT ![t] =
                     [IdleThread EXCEPT !.op = call.op, !.arg = call,
                         !.pc = IF call.class = "DBManager" /\ call.op = "adminLogout"
                                THEN "write_flag" ELSE "lock"]]
    /\ UNCHANGED <<locks, m_instance, constructed, dbUser, user_info>>
    /\ UNCHANGED <<coreVars, feedVars>>

\* QMutexLocker locker(&m_mutex) of the thread's class; m_mutex is not
\* recursive, so the locker of createUserTable called from setDatabase
\* ("relock") waits for the lock its own thread holds.
mtLock(t) ==
    /\ thr[t].pc \in {"lock", "relock"}
    /\ locks[thr[t].arg.class] = 0
    /\ locks' = [locks EXCEPT ![thr[t].arg.class] = t]
    /\ thr' = [thr EXCEPT ![t].pc = "locked"]
    /\ IF RunsHandler(t)
       THEN pending' = thr[t].arg /\ last' = Running
       ELSE UNCHANGED <<pending, last>>
    /\ UNCHANGED <<m_instance, constructed, dbUser, user_info>>
    /\ UNCHANGED <<storeVars, dbOpen, adminVars, userVars, feedVars>>

\* A locker that leaves its scope before the body of the operation has run.
mtUnlock_BeforeBody(t) ==
    /\ \/ thr[t].pc = "unlock"
       \/ thr[t].pc = "locked" /\ RunsHandler(t)
    /\ locks[thr[t].arg.class] = t
    /\ locks' = [locks EXCEPT ![thr[t].arg.class] = 0]
    /\ thr' = [thr EXCEPT ![t] = IdleThread]
    /\ UNCHANGED <<m_instance, constructed, dbUser, user_info>>
    /\ UNCHANGED <<coreVars, feedVars>>

\* The locker leaves its scope as the operation returns.
mtUnlock(t) ==
    /\ \/ thr[t].pc = "unlock"
       \/ thr[t].pc = "locked" /\ RunsHandler(t) /\ pending = Idle
    /\ locks[thr[t].arg.class] = t
    /\ locks' = [locks EXCEPT ![thr[t].arg.class] = 0]
    /\ thr' = [thr EXCEPT ![t] = IdleThread]
    /\ UNCHANGED <<m_instance, constructed, dbUser, user_info>>
    /\ UNCHANGED <<coreVars, feedVars>>

\* verifyAdminLogin up to the end of query.exec().
mtAdminLoginQuery(t) ==
    /\ thr[t].op = "verifyAdminLogin" /\ thr[t].pc = "locked"
    /\ IF ~dbOpen \/ thr[t].arg.adminName = "" \/ thr[t].arg.password = <<>>
       THEN thr' = [thr EXCEPT ![t].pc = "unlock"]
       ELSE \E execOk \in BOOLEAN :
               IF execOk
               THEN thr' = [thr EXCEPT ![t].pc = "queried",
                               ![t].rows = adminLoginRows(thr[t].arg.adminName,
                                                          thr[t].arg.password)]
               ELSE thr' = [thr EXCEPT ![t].pc = "unlock"]
    /\ UNCHANGED <<locks, m_instance, constructed, dbUser, user_info>>
    /\ UNCHANGED <<coreVars, feedVars>>

\* The three assignments to the admin session, one at a time: those of the
\* two branches of if (query.next()) in verifyAdminLogin and those of
\* adminLogout.
mtAdminSessionWrite(t) ==
    /\ thr[t].op \in SplitCalls
    /\ LET found == thr[t].op = "verifyAdminLogin" /\ thr[t].rows # {}
           row == CHOOSE r \in thr[t].rows : TRUE
       IN \/ /\ thr[t].pc \in {"queried", "write_flag"}
             /\ m_isAdminLoggedIn' = found
             /\ thr' = [thr EXCEPT ![t].pc = "write_id"]
             /\ UNCHANGED <<m_currentAdminId, m_currentAdminName>>
          \/ /\ thr[t].pc = "write_id"
             /\ m_currentAdminId' = IF found THEN row.Aid ELSE -1
             /\ thr' = [thr EXCEPT ![t].pc = "write_name"]
             /\ UNCHANGED <<m_isAdminLoggedIn, m_currentAdminName>>
          \/ /\ thr[t].pc = "write_name"
             /\ m_currentAdminName' = IF found THEN row.Admin_name ELSE ""
             /\ thr' = IF thr[t].op = "verifyAdminLogin"
                       THEN [thr EXCEPT ![t].pc = "unlock"]
                       ELSE [thr EXCEPT ![t] = IdleThread]
             /\ UNCHANGED <<m_isAdminLoggedIn, m_currentAdminId>>
    /\ UNCHANGED <<locks, m_instance, constructed, dbUser, user_info>>
    /\ UNCHANGED <<storeVars, dbOpen, userVars, pending, last, feedVars>>


\* DBUser's m_db.isOpen(): its handle is a copy of the connection
\* QT_ODBC_CONN, open when the connection is.
DBUser_isOpen == dbUser.m_db = "QT_ODBC_CONN" /\ dbOpen

\* DBUser::setDatabase after its locker: m_db = database, then
\* createUserTable() when the handle is open.
DBUser_setDatabase(t) ==
    /\ thr[t].arg.class = "DBUser" /\ thr[t].op = "setDatabase"
    /\ thr[t].pc = "locked"
    /\ dbUser' = [dbUser EXCEPT !.m_db = "QT_ODBC_CONN"]
    /\ thr' = [thr EXCEPT ![t].pc = IF dbOpen THEN "relock" ELSE "unlock"]
    /\ UNCHANGED <<locks, m_instance, constructed, user_info>>
    /\ UNCHANGED <<coreVars, feedVars>>

\* DBUser::createUserTable after its locker.
DBUser_createUserTable(t) ==
    /\ thr[t].arg.class = "DBUser" /\ thr[t].op = "createUserTable"
    /\ thr[t].pc = "locked"
    /\ IF ~DBUser_isOpen
       THEN UNCHANGED user_info
       ELSE \E execOk \in BOOLEAN :
               user_info' = IF execOk THEN [user_info EXCEPT !.exists = TRUE]
                            ELSE user_info
    /\ thr' = [thr EXCEPT ![t].pc = "unlock"]
    /\ UNCHANGED <<locks, m_instance, constructed, dbUser>>
    /\ UNCHANGED <<coreVars, feedVars>>

\* The session of DBUser after a reset: lines 406-408 and 416-418 of
\* verifyUserLogin, lines 435-437 of userLogout.
DBUser_loggedOut ==
    [dbUser EXCEPT !.m_isUserLoggedIn = FALSE, !.m_currentUserId = -1,
                   !.m_currentUsername = <<>>]

\* The body of DBUser::verifyUserLogin after its locker: what it returns, the
\* reason it reports and the members it leaves.  execOk is whether the driver
\* executes the SELECT; User_name is UNIQUE, so the SELECT yields at most one
\* row.
verifyUserLoginOutcome(username, password, execOk) ==
    LET found == {r \in user_info.rows : r.User_name = username}
        Fail(msg, members) == [ret |-> FALSE, msg |-> msg, members |-> members]
    IN IF ~DBUser_isOpen THEN Fail("not_connected", dbUser)
       ELSE IF username = <<>> THEN Fail("empty_username", dbUser)
       ELSE IF password = <<>> THEN Fail("empty_password", dbUser)
       ELSE IF ~execOk \/ ~user_info.exists THEN Fail("query_failed", dbUser)
       ELSE IF found = {} THEN Fail("username_not_found", DBUser_loggedOut)
       ELSE LET r == CHOOSE x \in found : TRUE
            IN IF passwordMatches(r.Password, password)
               THEN [ret |-> TRUE, msg |-> "ok",
                     members |-> [dbUser EXCEPT !.m_isUserLoggedIn = TRUE,
                                                !.m_currentUserId = r.Uid,
                                                !.m_currentUsername = r.User_name]]
               ELSE Fail("wrong_password", DBUser_loggedOut)

\* DBUser::verifyUserLogin after its locker.
DBUser_verifyUserLogin(t) ==
    /\ thr[t].arg.class = "DBUser" /\ thr[t].op = "verifyUserLogin"
    /\ thr[t].pc = "locked"
    /\ \E execOk \in BOOLEAN :
          dbUser' = verifyUserLoginOutcome(thr[t].arg.username,
                                           thr[t].arg.password, execOk).members
    /\ thr' = [thr EXCEPT ![t].pc = "unlock"]
    /\ UNCHANGED <<locks, m_instance, constructed, user_info>>
    /\ UNCHANGED <<coreVars, feedVars>>

\* DBUser::userLogout after its locker.
DBUser_userLogout(t) ==
    /\ thr[t].arg.class = "DBUser" /\ thr[t].op = "userLogout"
    /\ thr[t].pc = "locked"
    /\ dbUser' = DBUser_loggedOut
    /\ thr' = [thr EXCEPT ![t].pc = "unlock"]
    /\ UNCHANGED <<locks, m_instance, constructed, user_info>>
    /\ UNCHANGED <<coreVars, feedVars>>

UserInfoTables ==
    {[exists |-> FALSE, rows |-> {}],
     [exists |-> TRUE,
      rows |-> {[Uid |-> 1, User_name |-> NameAlice,
                 Password |-> encryptPassword(PwStrong), Email |-> EmailA]}]}

InitMT ==
    /\ flight = [x \in {"F1"} |->
                    [flightRow(DefaultForm) EXCEPT !.remain_seats = 1]]
    /\ t_users = {[id |-> 1, email |-> EmailA, username |-> "alice",
                   password |-> encryptPassword(PwStrong)]}
    /\ userTableExists = TRUE
    /\ admin_info = {[Aid |-> 1, Admin_name |-> "root", Password |-> RootPassword]}
    /\ InitMembers
    /\ posts = {} /\ assigned = 0
    /\ PageNotLoaded
    /\ thr = [t \in Threads |-> IdleThread]
    /\ locks = [c \in Classes |-> 0]
    /\ m_instance = [c \in Classes |-> 1]
    /\ constructed = [c \in Classes |-> 1]
    /\ dbUser = NewDBUser
    /\ user_info \in UserInfoTables

NextMT ==
    \/ \E t \in Threads : mtCall(t)
    \/ \E t \in Threads : mtLock(t)
    \/ \E t \in Threads : mtUnlock(t)
    \/ \E t \in Threads : mtAdminLoginQuery(t)
    \/ \E t \in Threads : mtAdminSessionWrite(t)
    \/ \E t \in Threads : DBUser_setDatabase(t)
    \/ \E t \in Threads : DBUser_createUserTable(t)
    \/ \E t \in Threads : DBUser_verifyUserLogin(t)
    \/ \E t \in Threads : DBUser_userLogout(t)
    \/ connectDB
    \/ disconnectDB
    \/ userLogin
    \/ userLogout
    \/ updateFlightSeats

SpecMT == InitMT /\ [][NextMT]_vars

\* The thread is inside a public operation: entered and not yet returned.
Inside(t) == thr[t].pc \notin {"idle", "lock"}

\* C2: every operation of DBManager that changes the connection handle or a
\* session, and every flight call, holds the global lock from entry to
\* return, so no two of them overlap; in particular adminLogout is never
\* inside its body while verifyAdminLogin is between its query and its
\* writes to the admin session.
C2_EveryOperationHoldsTheLock ==
    /\ \A t \in Threads :
          (Inside(t) /\ thr[t].arg.class = "DBManager")
             => locks["DBManager"] = t
    /\ \A t, u \in Threads :
          ~(/\ thr[t].op = "verifyAdminLogin" /\ thr[t].pc = "queried"
            /\ thr[u].op = "adminLogout" /\ Inside(u))

\* C3: DBUser and DBManager are serialized by one lock: no thread is in the
\* critical section of a DBUser operation, about to run its statement on the
\* shared connection, while a thread is in the critical section of a
\* DBManager operation that has not yet finished its own statements.
C3_OneLockForBoth ==
    \A t, u \in Threads :
        ~(/\ thr[t].arg.class = "DBUser" /\ locks["DBUser"] = t
          /\ thr[t].op \in {"verifyUserLogin", "createUserTable"}
          /\ thr[t].pc = "locked" /\ DBUser_isOpen
          /\ thr[u].arg.class = "DBManager" /\ locks["DBManager"] = u
          /\ thr[u].pc = "locked"
          /\ RunsHandler(u) => pending # Idle)

-----------------------------------------------------------------------------
(* Further properties of the page Discovery.qml                            *)

\* The ids the while loop of next_page.onClicked passes to queryPostDetail,
\* in the order of the calls.
RECURSIVE scanQueries(_, _)
scanQueries(post, index) ==
    IF ~(post = Undefined \/ post = EmptyObject)
    THEN <<>>
    ELSE IF index = 0
    THEN <<>>
    ELSE <<index>> \o scanQueries(queryPostDetail(index), index - 1)

\* The steps of next_page.onClicked, by what they leave in feedLast.
NextPageOutcomes == {"shown", "no_earlier", "hung"}

\* C11: from every reachable state of the page, the empty feed with its empty
\* history list included, one backward step (next_page) ends, with a
\* displayed post or with no earlier post, after at most cur-1 calls of
\* queryPostDetail for the displayed post cur, none of them for an id <= 0.
C11_ScanTerminates ==
    [][(feedLast' \in NextPageOutcomes) =>
          /\ feedLast' \in {"shown", "no_earlier"}
          /\ LET queries == scanQueries(Undefined,
                                        posts_list[current_post_index + 1] - 1)
             IN /\ Len(queries) <= card_id - 1
                /\ \A i \in 1..Len(queries) : queries[i] >= 1
      ]_vars


\* C12: a history step (last_page) never scans: when the position is not the
\* first entry it moves one position towards the start of the history list
\* and shows the id stored at the new position, fetched by that id alone;
\* it leaves the history list as it is; at the first entry it does nothing.
C12_HistoryStep ==
    [][(feedLast' \in {"history", "history_start"}) =>
          /\ posts_list' = posts_list
          /\ posts' = posts
          /\ IF current_post_index > 0
             THEN /\ feedLast' = "history"
                  /\ current_post_index' = current_post_index - 1
                  /\ card_id' = posts_list[current_post_index' + 1]
             ELSE /\ feedLast' = "history_start"
                  /\ UNCHANGED <<current_post_index, card_id>>
      ]_vars

\* After two backward steps from post 7 over the posts {1, 2, 5, 7}, a
\* history step has gone back from post 2 to post 5.
C12_Witness ==
    /\ posts = {1, 2, 5, 7}
    /\ posts_list = <<7, 5, 2>>
    /\ current_post_index = 1
    /\ card_id = 5
    /\ feedLast = "history"


-----------------------------------------------------------------------------
(* DBUser called from the UI thread                                        *)

\* ^[a-zA-Z][a-zA-Z0-9_]{2,19}$
UsernameChars == AsciiLetters \cup AsciiDigits \cup {"_"}
isValidUsername(username) ==
    /\ Len(username) >= 3 /\ Len(username) <= 20
    /\ username[1] \in AsciiLetters
    /\ \A i \in 2..Len(username) : username[i] \in UsernameChars

\* The loop of isPasswordStrong: the two tests are independent, and the early
\* break does not change the result.
isPasswordStrong(password) ==
    IF Len(password) < 8 THEN FALSE
    ELSE LET hasLetter == \E i \in 1..Len(password) : isLetter(password[i])
             hasDigit == \E i \in 1..Len(password) : isDigit(password[i])
         IN hasLetter /\ hasDigit

\* isValidEmail: the empty test, then the expression of isValidEmailFormat.
isValidEmail(email) ==
    IF email = <<>> THEN FALSE ELSE isValidEmailFormat(email)

\* A call of DBUser returns to the UI.
ReturnDBUser(op, ret, msg, events) ==
    /\ last' = [op |-> op, ret |-> ret, msg |-> msg, events |-> events]
    /\ pending' = Idle
    /\ UNCHANGED <<storeVars, dbOpen, adminVars, userVars, feedVars>>
    /\ UNCHANGED <<thr, locks, m_instance, constructed>>

\* The UI thread waits for a lock it holds itself: the call never returns.
Blocked == [op |-> "blocked"]

\* DBUser::setDatabase: with an open handle it calls createUserTable, whose
\* locker waits for the m_mutex that setDatabase's own locker holds.
setDatabase ==
    /\ pending.op = "DBUser::setDatabase"
    /\ dbUser' = [dbUser EXCEPT !.m_db = "QT_ODBC_CONN"]
    /\ UNCHANGED user_info
    /\ IF dbOpen
       THEN /\ pending' = Blocked
            /\ UNCHANGED last
            /\ UNCHANGED <<storeVars, dbOpen, adminVars, userVars, feedVars>>
            /\ UNCHANGED <<thr, locks, m_instance, constructed>>
       ELSE ReturnDBUser("DBUser::setDatabase", TRUE, "", <<>>)

\* DBUser::createUserTable: CREATE TABLE IF NOT EXISTS user_info.
createUserTable ==
    /\ pending.op = "DBUser::createUserTable"
    /\ UNCHANGED dbUser
    /\ IF ~DBUser_isOpen
       THEN /\ UNCHANGED user_info
            /\ ReturnDBUser("DBUser::createUserTable", FALSE, "not_connected",
                            <<operateResult(FALSE, "not_connected")>>)
       ELSE \E execOk \in BOOLEAN :
               IF execOk
               THEN /\ user_info' = [user_info EXCEPT !.exists = TRUE]
                    /\ ReturnDBUser("DBUser::createUserTable", TRUE, "ok",
                                    <<operateResult(TRUE, "table_ready")>>)
               ELSE /\ UNCHANGED user_info
                    /\ ReturnDBUser("DBUser::createUserTable", FALSE, "create_failed",
                                    <<operateResult(FALSE, "create_failed")>>)

\* INSERT INTO user_info: Uid is AUTO_INCREMENT and User_name is UNIQUE;
\* Email is indexed, not UNIQUE.
userInfoInsertOk(username, execOk) ==
    /\ execOk /\ user_info.exists
    /\ \A r \in user_info.rows : r.User_name # username
nextUid == Cardinality(user_info.rows) + 1

\* DBUser::registerUser.  nameQ and mailQ are whether the driver executes the
\* two SELECTs; a failed first SELECT ends the call, a failed second one is
\* read as "no such address".
registerUser ==
    /\ pending.op = "DBUser::registerUser"
    /\ UNCHANGED dbUser
    /\ LET username == pending.username
           password == pending.password
           confirmPassword == pending.confirmPassword
           email == pending.email
           Fail(msg) ==
               /\ UNCHANGED user_info
               /\ ReturnDBUser("DBUser::registerUser", FALSE, msg,
                               <<Sig("registerFailed", FALSE, msg)>>)
       IN IF ~DBUser_isOpen THEN Fail("not_connected")
          ELSE IF username = <<>> \/ password = <<>>
                  \/ confirmPassword = <<>> \/ email = <<>>
          THEN Fail("empty_input")
          ELSE IF ~isValidUsername(username) THEN Fail("bad_username_format")
          ELSE IF ~isPasswordStrong(password) THEN Fail("weak_password")
          ELSE IF password # confirmPassword THEN Fail("confirm_mismatch")
          ELSE IF ~isValidEmail(email) THEN Fail("bad_email_format")
          ELSE \E nameQ \in BOOLEAN, mailQ \in BOOLEAN,
                  ins \in {"ok", "prepare_failed", "exec_failed"} :
               IF ~nameQ \/ ~user_info.exists THEN Fail("query_failed")
               ELSE IF \E r \in user_info.rows : r.User_name = username
               THEN Fail("username_exists")
               ELSE IF mailQ /\ \E r \in user_info.rows : r.Email = email
               THEN Fail("email_exists")
               ELSE IF ins = "prepare_failed" THEN Fail("store_error")
               ELSE IF userInfoInsertOk(username, ins = "ok")
               THEN /\ user_info' = [user_info EXCEPT !.rows = @ \cup
                          {[Uid |-> nextUid, User_name |-> username,
                            Password |-> encryptPassword(password),
                            Email |-> email]}]
                    /\ ReturnDBUser("DBUser::registerUser", TRUE, "ok",
                                    <<Sig("registerSuccess", TRUE, ""),
                                      operateResult(TRUE, "registered")>>)
               ELSE Fail("insert_failed")

\* DBUser::verifyUserLogin called from the UI.
verifyUserLogin ==
    /\ pending.op = "DBUser::verifyUserLogin"
    /\ UNCHANGED user_info
    /\ \E execOk \in BOOLEAN :
          LET out == verifyUserLoginOutcome(pending.username, pending.password,
                                            execOk)
          IN /\ dbUser' = out.members
             /\ ReturnDBUser("DBUser::verifyUserLogin", out.ret, out.msg,
                    IF out.ret
                    THEN <<Sig("userLoginStateChanged", TRUE, ""),
                           Sig("userLoginSuccess", TRUE, ""),
                           Sig("currentUserChanged", TRUE, ""),
                           operateResult(TRUE, "logged_in")>>
                    ELSE <<Sig("userLoginFailed", FALSE, out.msg)>>)

\* DBUser::userLogout called from the UI.
DBUser_userLogoutCall ==
    /\ pending.op = "DBUser::userLogout"
    /\ dbUser' = DBUser_loggedOut
    /\ UNCHANGED user_info
    /\ ReturnDBUser("DBUser::userLogout", TRUE, "logged_out",
                    <<Sig("userLoginStateChanged", FALSE, ""),
                      Sig("userLogoutSuccess", TRUE, ""),
                      Sig("currentUserChanged", TRUE, ""),
                      operateResult(TRUE, "logged_out")>>)

-----------------------------------------------------------------------------
(* Specification of the user accounts of DBManager and DBUser              *)

\* The registration forms of RegisterPage: alice's carry one well-formed
\* address, bob's either of two, so that an address can arrive twice.
RegisterEmails(isAlice) ==
    IF isAlice THEN {<<>>, EmailNoTld, EmailA}
    ELSE {<<>>, EmailNoTld, EmailA, EmailC}
RegisterPasswords == {<<>>, PwNoDigit, PwStrong}
LoginPasswords == {<<>>, PwStrong, PwStrong2}
DBUserNames == {<<>>, NameDigitFirst, NameAlice, NameBob}

AccountCalls ==
    {[op |-> "connectDB"], [op |-> "disconnectDB"], [op |-> "userLogout"]}
    \cup {[op |-> "userLogin", username |-> u, password |-> p] :
             u \in UsernameInputs, p \in LoginPasswords}
    \cup {[op |-> "userRegister", email |-> f[1], username |-> f[2],
           password |-> f[3]] :
             f \in {g \in EmailInputs \X UsernameInputs \X RegisterPasswords :
                       g[1] \in RegisterEmails(g[2] = "alice")}}
    \cup {[op |-> "DBUser::setDatabase"], [op |-> "DBUser::createUserTable"],
          [op |-> "DBUser::userLogout"]}
    \cup {[op |-> "DBUser::verifyUserLogin", username |-> u, password |-> p] :
             u \in {<<>>, NameAlice, NameBob}, p \in LoginPasswords}
    \cup {[op |-> "DBUser::registerUser", username |-> f[1], password |-> f[2],
           confirmPassword |-> f[3], email |-> f[4]] :
             f \in {g \in DBUserNames \X RegisterPasswords
                            \X {<<>>, PwStrong, PwStrong2} \X EmailInputs :
                       /\ g[4] \in RegisterEmails(g[1] = NameAlice)
                       /\ g[3] \in {g[2], PwStrong2}}}

\* A new store: neither t_users nor user_info exists yet.
InitAccounts ==
    /\ flight = [x \in {} |-> x]
    /\ t_users = {}
    /\ userTableExists = FALSE
    /\ admin_info \in AdminTables
    /\ InitMembers
    /\ posts = {} /\ assigned = 0
    /\ PageNotLoaded
    /\ dbUser = NewDBUser
    /\ user_info = [exists |-> FALSE, rows |-> {}]
    /\ thr = <<>>
    /\ locks = [c \in Classes |-> 0]
    /\ m_instance = [c \in Classes |-> 1]
    /\ constructed = [c \in Classes |-> 1]

InvokeAccounts ==
    /\ pending = Idle
    /\ pending' \in AccountCalls
    /\ last' = Running
    /\ UNCHANGED <<storeVars, dbOpen, adminVars, userVars, feedVars, threadVars>>

NextAccounts ==
    \/ InvokeAccounts
    \/ connectDB
    \/ disconnectDB
    \/ userRegister
    \/ userLogin
    \/ userLogout
    \/ setDatabase
    \/ createUserTable
    \/ registerUser
    \/ verifyUserLogin
    \/ DBUser_userLogoutCall

SpecAccounts == InitAccounts /\ [][NextAccounts]_vars


-----------------------------------------------------------------------------
(* Properties of the user accounts                                         *)

\* The session of DBUser is unauthenticated with its fields cleared.
DBUserLoggedOut ==
    /\ ~dbUser.m_isUserLoggedIn /\ dbUser.m_currentUserId = -1
    /\ dbUser.m_currentUsername = <<>>

\* The passwords a stored digest can come from: the registration forms'.
RegisteredAs(stored) == {p \in RegisterPasswords : stored = encryptPassword(p)}

\* A login of DBManager on an open connection for a registered username.
LoginOfRegistered ==
    /\ Handles("userLogin") /\ dbOpen
    /\ \E r \in t_users : r.username = pending.username
\* A login of DBUser on an open handle for a registered username.
DBUserLoginOfRegistered ==
    /\ Handles("DBUser::verifyUserLogin") /\ DBUser_isOpen
    /\ \E r \in user_info.rows : r.User_name = pending.username

\* The session DBManager holds after a login as the owner of row r.
LoggedInAs(r) ==
    /\ m_isUserLoggedIn' /\ m_currentUserId' = r.id
    /\ m_currentUserName' = r.username /\ m_currentUserEmail' = r.email
\* The session DBUser holds after a login as the owner of row r.
DBUserLoggedInAs(r) ==
    /\ dbUser'.m_isUserLoggedIn /\ dbUser'.m_currentUserId = r.Uid
    /\ dbUser'.m_currentUsername = r.User_name

\* C13 as stated: on an open connection, after register(email, u, p) has
\* succeeded, login(u, p) succeeds and the session is LoggedIn with the id of
\* the registered row, name u and the registered email; login(u, q) with any q
\* whose digest differs from that of p fails with the password-mismatch
\* reason and a session that was LoggedOut is LoggedOut afterwards.
C13_RoundTripAsStated ==
    [][/\ LoginOfRegistered =>
            LET r == CHOOSE x \in t_users : x.username = pending.username
            IN /\ RegisteredAs(r.password) # {}
               /\ \A p \in RegisteredAs(r.password) :
                     IF encryptPassword(pending.password) = encryptPassword(p)
                     THEN last'.ret /\ LoggedInAs(r)
                     ELSE /\ ~last'.ret /\ last'.msg = "wrong_password"
                          /\ UserLoggedOut => UserLoggedOut'
       /\ DBUserLoginOfRegistered =>
            LET r == CHOOSE x \in user_info.rows : x.User_name = pending.username
            IN /\ RegisteredAs(r.Password) # {}
               /\ \A p \in RegisteredAs(r.Password) :
                     IF encryptPassword(pending.password) = encryptPassword(p)
                     THEN last'.ret /\ DBUserLoggedInAs(r)
                     ELSE /\ ~last'.ret /\ last'.msg = "wrong_password"
                          /\ DBUserLoggedOut => DBUserLoggedOut'
      ]_vars

\* C13: the same round trip when the login's SELECT executes (a login whose
\* SELECT fails reports that failure and leaves the session as it was) and
\* for every non-empty q (an empty q is reported as empty input).
C13_RoundTrip ==
    [][/\ LoginOfRegistered =>
            LET r == CHOOSE x \in t_users : x.username = pending.username
            IN /\ RegisteredAs(r.password) # {}
               /\ \A p \in RegisteredAs(r.password) :
                     IF last'.msg = "store_error"
                     THEN ~last'.ret /\ UNCHANGED userVars
                     ELSE IF encryptPassword(pending.password) = encryptPassword(p)
                     THEN last'.ret /\ LoggedInAs(r)
                     ELSE /\ ~last'.ret
                          /\ last'.msg = IF pending.password = <<>>
                                         THEN "empty_input" ELSE "wrong_password"
                          /\ UserLoggedOut => UserLoggedOut'
       /\ DBUserLoginOfRegistered =>
            LET r == CHOOSE x \in user_info.rows : x.User_name = pending.username
            IN /\ RegisteredAs(r.Password) # {}
               /\ \A p \in RegisteredAs(r.Password) :
                     IF last'.msg = "query_failed"
                     THEN ~last'.ret /\ UNCHANGED dbUser
                     ELSE IF encryptPassword(pending.password) = encryptPassword(p)
                     THEN last'.ret /\ DBUserLoggedInAs(r)
                     ELSE /\ ~last'.ret
                          /\ last'.msg = IF pending.password = <<>>
                                         THEN "empty_password" ELSE "wrong_password"
                          /\ DBUserLoggedOut => DBUserLoggedOut'
      ]_vars

\* bob registered second with DBManager and has logged in; alice registered
\* with DBUser and her login with another password has just been refused.
C13_Witness ==
    /\ pending = Idle /\ dbOpen
    /\ \E r \in t_users : /\ r.username = "bob" /\ r.id = 2 /\ r.email = EmailC
                          /\ m_isUserLoggedIn /\ m_currentUserId = 2
                          /\ m_currentUserName = "bob"
                          /\ m_currentUserEmail = EmailC
    /\ \E r \in user_info.rows : r.User_name = NameAlice
    /\ last.op = "DBUser::verifyUserLogin" /\ last.msg = "wrong_password"


\* The outcome the four login rules give, in their order: the reason of the
\* first rule that fails, or "ok".  open is whether the connection is open,
\* noName whether the username is empty, stored the Password values of the
\* rows with the submitted username.
LoginRuleOutcome(open, noName, password, stored) ==
    IF ~open THEN "not_connected"
    ELSE IF noName \/ password = <<>> THEN "empty_input"
    ELSE IF stored = {} THEN "username_not_found"
    ELSE IF encryptPassword(password) \notin stored THEN "wrong_password"
    ELSE "ok"
\* The reasons of DBUser for an empty username and an empty password are
\* both the empty-input reason.
ReasonClass(msg) ==
    IF msg \in {"empty_username", "empty_password"} THEN "empty_input" ELSE msg
StoredFor(username) == {r.password : r \in {x \in t_users : x.username = username}}
DBUserStoredFor(username) ==
    {r.Password : r \in {x \in user_info.rows : x.User_name = username}}

\* C14 as stated: a user login fails with the reason of the first failing
\* rule among not connected, empty username or password, username not
\* found, password mismatch, and succeeds exactly when no rule fails.
C14_LoginReasonsAsStated ==
    [][/\ Handles("userLogin") =>
            LET want == LoginRuleOutcome(dbOpen, pending.username = "",
                            pending.password, StoredFor(pending.username))
            IN /\ last'.ret <=> want = "ok"
               /\ last'.msg = want
       /\ Handles("DBUser::verifyUserLogin") =>
            LET want == LoginRuleOutcome(DBUser_isOpen, pending.username = <<>>,
                            pending.password, DBUserStoredFor(pending.username))
            IN /\ last'.ret <=> want = "ok"
               /\ ReasonClass(last'.msg) = want
      ]_vars

\* The reason a login gives when its SELECT does not execute.
LoginStoreErrors == {"store_error", "query_failed"}

\* C14: there is a fifth reason, that the store failed the SELECT; it can be
\* reported only on an open connection with non-empty inputs, and a login
\* that does not report it fails with the reason of the first failing rule
\* and succeeds exactly when no rule fails.
C14_LoginReasons ==
    [][/\ Handles("userLogin") =>
            LET want == LoginRuleOutcome(dbOpen, pending.username = "",
                            pending.password, StoredFor(pending.username))
            IN IF last'.msg \in LoginStoreErrors
               THEN ~last'.ret /\ want \notin {"not_connected", "empty_input"}
               ELSE /\ last'.ret <=> want = "ok"
                    /\ last'.msg = want
       /\ Handles("DBUser::verifyUserLogin") =>
            LET want == LoginRuleOutcome(DBUser_isOpen, pending.username = <<>>,
                            pending.password, DBUserStoredFor(pending.username))
            IN IF last'.msg \in LoginStoreErrors
               THEN ~last'.ret /\ want \notin {"not_connected", "empty_input"}
               ELSE /\ last'.ret <=> want = "ok"
                    /\ ReasonClass(last'.msg) = want
      ]_vars

\* With alice registered in both tables, a login as bob has been refused by
\* DBManager because no such username exists.
C14_Witness ==
    /\ pending = Idle /\ dbOpen
    /\ \E r \in t_users : r.username = "alice"
    /\ \E r \in user_info.rows : r.User_name = NameAlice
    /\ last.op = "userLogin" /\ ~last.ret /\ last.msg = "username_not_found"


\* The reason the registration rules give in the order non-empty, email
\* format, password strength, confirm-password match, username uniqueness,
\* email uniqueness: that of the first rule the input violates, or "ok".
RegisterRuleOutcome(noField, badEmail, weak, unconfirmed, nameTaken, mailTaken) ==
    IF noField THEN "empty_input"
    ELSE IF badEmail THEN "bad_email_format"
    ELSE IF weak THEN "weak_password"
    ELSE IF unconfirmed THEN "confirm_mismatch"
    ELSE IF nameTaken THEN "username_exists"
    ELSE IF mailTaken THEN "email_exists"
    ELSE "ok"

\* The reasons of the two uniqueness rules.  Whether a registration reports
\* them depends on the store executing the rule's SELECT.
UniquenessReasons == {"username_exists", "email_exists"}

\* C15: on an open connection, a registration whose input violates one or
\* more of the rules non-empty, email format, password strength,
\* confirm-password match (DBUser only), username uniqueness, email
\* uniqueness fails and inserts no row, and when the first rule violated in
\* this order is one of the first four, the reported reason is that rule's.
C15_RegisterOrder ==
    [][/\ Handles("userRegister") /\ dbOpen =>
            LET want == RegisterRuleOutcome(
                    pending.email = <<>> \/ pending.username = ""
                        \/ pending.password = <<>>,
                    ~isValidEmailFormat(pending.email),
                    ~isValidPasswordStrength(pending.password),
                    FALSE,
                    \E r \in t_users : r.username = pending.username,
                    \E r \in t_users : r.email = pending.email)
            IN want # "ok" =>
                  /\ ~last'.ret /\ t_users' = t_users
                  /\ want \notin UniquenessReasons => last'.msg = want
       /\ Handles("DBUser::registerUser") /\ DBUser_isOpen =>
            LET want == RegisterRuleOutcome(
                    pending.username = <<>> \/ pending.password = <<>>
                        \/ pending.confirmPassword = <<>> \/ pending.email = <<>>,
                    ~isValidEmail(pending.email),
                    ~isPasswordStrong(pending.password),
                    pending.password # pending.confirmPassword,
                    \E r \in user_info.rows : r.User_name = pending.username,
                    \E r \in user_info.rows : r.Email = pending.email)
            IN want # "ok" =>
                  /\ ~last'.ret /\ user_info' = user_info
                  /\ want \notin UniquenessReasons => last'.msg = want
      ]_vars


\* C16: a registration that changes the user table inserts exactly one row,
\* does so only when its input passes every check (non-empty, email format,
\* password strength, confirmation, username and email not yet stored) and
\* stores the digest of the submitted password, never the password itself; a
\* registration that fails leaves the user table unchanged.
C16_InsertAfterChecks ==
    [][/\ Handles("userRegister") =>
            /\ ~last'.ret => t_users' = t_users
            /\ t_users' # t_users =>
                  /\ dbOpen /\ last'.ret
                  /\ RegisterRuleOutcome(
                         pending.email = <<>> \/ pending.username = ""
                             \/ pending.password = <<>>,
                         ~isValidEmailFormat(pending.email),
                         ~isValidPasswordStrength(pending.password),
                         FALSE,
                         \E r \in t_users : r.username = pending.username,
                         \E r \in t_users : r.email = pending.email) = "ok"
                  /\ \E r \in t_users' \ t_users :
                        /\ t_users' = t_users \cup {r}
                        /\ r.username = pending.username
                        /\ r.email = pending.email
                        /\ r.password = encryptPassword(pending.password)
                        /\ r.password # pending.password
       /\ Handles("DBUser::registerUser") =>
            /\ ~last'.ret => user_info' = user_info
            /\ user_info' # user_info =>
                  /\ DBUser_isOpen /\ last'.ret
                  /\ isValidUsername(pending.username)
                  /\ RegisterRuleOutcome(
                         pending.username = <<>> \/ pending.password = <<>>
                             \/ pending.confirmPassword = <<>>
                             \/ pending.email = <<>>,
                         ~isValidEmail(pending.email),
                         ~isPasswordStrong(pending.password),
                         pending.password # pending.confirmPassword,
                         \E r \in user_info.rows : r.User_name = pending.username,
                         \E r \in user_info.rows : r.Email = pending.email) = "ok"
                  /\ \E r \in user_info'.rows \ user_info.rows :
                        /\ user_info'.rows = user_info.rows \cup {r}
                        /\ r.User_name = pending.username
                        /\ r.Email = pending.email
                        /\ r.Password = encryptPassword(pending.password)
                        /\ r.Password # pending.password
      ]_vars


-----------------------------------------------------------------------------
(* Further properties of the admin session and the connection              *)

\* C17: an admin login that succeeds was made on an open connection with a
\* non-empty name and password, the admin table holds a row with the supplied
\* name whose Password is the digest of the supplied password, and the
\* session holds the Aid and the Admin_name of that row.
C17_AdminLoginMatchesDigest ==
    [][Handles("verifyAdminLogin") /\ last'.ret =>
          /\ dbOpen
          /\ pending.adminName # "" /\ pending.password # <<>>
          /\ \E r \in admin_info :
                /\ r.Admin_name = pending.adminName
                /\ r.Password = encryptPassword(pending.password)
                /\ m_isAdminLoggedIn'
                /\ m_currentAdminId' = r.Aid
                /\ m_currentAdminName' = r.Admin_name
      ]_vars


\* The causes of a failed admin login, in the order the code tests them.
AdminLoginCause ==
    IF ~dbOpen THEN "not_connected"
    ELSE IF pending.adminName = "" \/ pending.password = <<>> THEN "empty_input"
    ELSE IF adminLoginRows(pending.adminName, pending.password) = {}
    THEN "bad_credentials"
    ELSE "none"

\* C18: an admin login that fails from the state LoggedOut leaves the state
\* LoggedOut, and its reason identifies its cause: the reasons for not
\* connected, empty input and no matching row are reported for exactly these
\* causes, and the only other reason is that the store failed the query
\* (on an open connection with non-empty inputs).
C18_FailedAdminLogin ==
    [][Handles("verifyAdminLogin") /\ AdminLoggedOut /\ ~last'.ret =>
          /\ AdminLoggedOut'
          /\ last'.msg \in {"not_connected", "empty_input", "bad_credentials",
                            "query_failed"}
          /\ IF last'.msg = "query_failed"
             THEN AdminLoginCause \notin {"not_connected", "empty_input"}
             ELSE last'.msg = AdminLoginCause
      ]_vars

\* A login with a wrong password has just been refused on an open connection,
\* nobody being logged in as admin.
C18_Witness ==
    /\ pending = Idle /\ dbOpen /\ AdminLoggedOut
    /\ last.op = "verifyAdminLogin" /\ ~last.ret /\ last.msg = "bad_credentials"


\* The signals a call emitted include the named one.
Emitted(name) == \E i \in 1..Len(last'.events) : last'.events[i].sig = name

\* C19: a logout of either account kind, from LoggedIn or LoggedOut and with
\* the connection open or closed, ends in LoggedOut with id -1 and the name
\* (and email) cleared, reports success and changes nothing else; from
\* LoggedOut, as right after another logout, it leaves the state as it is.
C19_LogoutIdempotent ==
    [][/\ Handles("userLogout") =>
            /\ UserLoggedOut'
            /\ last'.ret /\ Emitted("userLogoutSuccess")
            /\ UNCHANGED <<storeVars, dbOpen, adminVars>>
            /\ UserLoggedOut => UNCHANGED userVars
       /\ Handles("adminLogout") =>
            /\ AdminLoggedOut'
            /\ last'.ret /\ Emitted("adminLogoutSuccess")
            /\ UNCHANGED <<storeVars, dbOpen, userVars>>
            /\ AdminLoggedOut => UNCHANGED adminVars
      ]_vars

\* alice has registered, the connection is closed and nobody is logged in:
\* a user logout has just reported success.
C19_Witness ==
    /\ pending = Idle /\ ~dbOpen
    /\ \E r \in t_users : r.username = "alice"
    /\ last.op = "userLogout" /\ last.ret
    /\ UserLoggedOut /\ AdminLoggedOut


\* C20: connectDB called on an open connection returns true, leaves the
\* connection open and both sessions, the flights and the account rows
\* unchanged, so that a second connectDB ends where the first one did;
\* connectDB called on a closed connection that fails returns false and
\* leaves the connection closed and both sessions unchanged.  No connectDB
\* loses the user table: it is created when missing and kept otherwise.
C20_ConnectIdempotent ==
    [][Handles("connectDB") =>
          /\ UNCHANGED <<adminVars, userVars, flight, t_users, admin_info>>
          /\ last'.ret <=> dbOpen'
          /\ dbOpen => last'.ret /\ last'.msg = "already_connected"
          /\ ~last'.ret => ~dbOpen /\ UNCHANGED userTableExists
          /\ userTableExists => userTableExists'
      ]_vars

\* A connectDB on the open connection has just returned, alice being
\* registered and logged in.
C20_Witness ==
    /\ pending = Idle /\ dbOpen
    /\ last.op = "connectDB" /\ last.ret /\ last.msg = "already_connected"
    /\ m_isUserLoggedIn /\ m_currentUserName = "alice"
    /\ \E r \in t_users : r.username = "alice" /\ r.id = m_currentUserId


-----------------------------------------------------------------------------
(* Properties of the schema, the roles and the signals                     *)

\* C21: after every connectDB that returns true, on first open as well as on
\* an already-open handle, the table t_users exists, whether or not the
\* store executes the CREATE TABLE IF NOT EXISTS statement.
C21_ConnectEnsuresUserTable ==
    [][Handles("connectDB") /\ last'.ret => userTableExists']_vars


\* C22: a call of addFlight or deleteFlight made while the admin session is
\* unauthenticated changes no row of the flight table.
C22_FlightsOnlyByAdmin ==
    [][(Handles("addFlight") \/ Handles("deleteFlight")) /\ ~m_isAdminLoggedIn
          => flight' = flight]_vars


-----------------------------------------------------------------------------
(* The page TravelShare.qml                                                *)

\* share_data: the title is "114" until the user types one, the content
\* "514", the image_url "" until a file is chosen.
ShareTitles == {"114", "", "Lisbon"}
ShareImages == {"", "file:///a.png"}

\* The submit button's onClicked: uid = DBManager.getCurrentUserId(), then
\* DBManager.publishPostWithPath(title, content, uid, image_url).  The button
\* is enabled whatever the user session is.
submit_onClicked ==
    /\ pending = Idle
    /\ assigned < MaxPublished
    /\ \E title \in ShareTitles, image_url \in ShareImages :
          pending' = [op |-> "publishPostWithPath", title |-> title,
                      content |-> "514", uid |-> getCurrentUserId,
                      image_url |-> image_url]
    /\ last' = Running
    /\ UNCHANGED <<storeVars, dbOpen, adminVars, userVars, feedVars, threadVars>>

\* publishPostWithPath as the page calls it: the post is stored under the
\* next id, or the call reports a failure; either way through operateResult.
publishPostWithPathCall ==
    /\ pending.op = "publishPostWithPath"
    /\ \E stored \in BOOLEAN :
          IF dbOpen /\ stored
          THEN /\ assigned' = assigned + 1
               /\ posts' = posts \cup {assigned + 1}
               /\ last' = [op |-> "publishPostWithPath", ret |-> TRUE,
                           msg |-> "published",
                           events |-> <<operateResult(TRUE, "published")>>]
          ELSE /\ UNCHANGED <<assigned, posts>>
               /\ last' = [op |-> "publishPostWithPath", ret |-> FALSE,
                           msg |-> "publish_failed",
                           events |-> <<operateResult(FALSE, "publish_failed")>>]
    /\ pending' = Idle
    /\ UNCHANGED <<posts_list, current_post_index, card_id, feedLast>>
    /\ UNCHANGED <<storeVars, dbOpen, adminVars, userVars, threadVars>>

\* The session calls made around the page.
ShareSessionCalls ==
    {[op |-> "connectDB"], [op |-> "disconnectDB"], [op |-> "userLogout"]}
    \cup {[op |-> "userLogin", username |-> u, password |-> p] :
             u \in UsernameInputs, p \in {PwStrong, PwStrong2}}

InvokeShare ==
    /\ pending = Idle
    /\ pending' \in ShareSessionCalls
    /\ last' = Running
    /\ UNCHANGED <<storeVars, dbOpen, adminVars, userVars, feedVars, threadVars>>

NextShare ==
    \/ InvokeShare
    \/ connectDB
    \/ disconnectDB
    \/ userLogin
    \/ userLogout
    \/ submit_onClicked
    \/ publishPostWithPathCall

SpecShare == InitFlight /\ [][NextShare]_vars

\* C23: the publish call is issued only with the id of the currently
\* authenticated user as author, never with the id -1 that getCurrentUserId
\* returns while the user session is unauthenticated.
C23_PublishOnlyAsCurrentUser ==
    pending.op = "publishPostWithPath" =>
        /\ m_isUserLoggedIn
        /\ pending.uid = m_currentUserId
        /\ pending.uid # -1


\* The calls that change the connection, a session or the store.
MutatingCalls ==
    {"connectDB", "disconnectDB", "userRegister", "userLogin", "userLogout",
     "verifyAdminLogin", "adminLogout", "addFlight", "updateFlightPrice",
     "updateFlightSeats", "deleteFlight"}

\* C24: every mutating call emits an operateResult(success, message) event
\* before it returns, on failure as well as on success.
C24_EveryCallEmitsOperateResult ==
    [][pending # Idle /\ pending.op \in MutatingCalls /\ pending' = Idle
          => Emitted("operateResult")]_vars


\* The call that has just returned emitted the named state-changed signal
\* carrying the given value.
EmittedState(name, value) ==
    \E i \in 1..Len(last'.events) :
       last'.events[i].sig = name /\ last'.events[i].flag = value

\* C25: every step that changes the authenticated flag of a session emits
\* the state-changed signal of that session carrying the new value of the
\* flag (so that the value of the last such signal is the current flag).
C25_FlagChangeIsSignalled ==
    [][/\ m_isAdminLoggedIn' # m_isAdminLoggedIn =>
            EmittedState("adminLoginStateChanged", m_isAdminLoggedIn')
       /\ m_isUserLoggedIn' # m_isUserLoggedIn =>
            EmittedState("userLoginStateChanged", m_isUserLoggedIn')
       /\ dbUser'.m_isUserLoggedIn # dbUser.m_isUserLoggedIn =>
            EmittedState("userLoginStateChanged", dbUser'.m_isUserLoggedIn)
      ]_vars


\* What the getters return: they read the members without taking m_mutex,
\* so a caller observes the members of whatever state it is called in.
getCurrentUserName == m_currentUserName
getCurrentUserEmail == m_currentUserEmail
getCurrentAdminId == m_currentAdminId
getCurrentAdminName == m_currentAdminName

\* C26: in every state the getters show each session as a tri-state value:
\* unauthenticated with its fields cleared, or authenticated with an id and
\* a name (never the flag true with id -1, nor the flag false with a name).
C26_SessionsTriState ==
    /\ IF isAdminLoggedIn
       THEN getCurrentAdminId # -1 /\ getCurrentAdminName # ""
       ELSE getCurrentAdminId = -1 /\ getCurrentAdminName = ""
    /\ IF isUserLoggedIn
       THEN getCurrentUserId # -1 /\ getCurrentUserName # ""
       ELSE /\ getCurrentUserId = -1 /\ getCurrentUserName = ""
            /\ getCurrentUserEmail = <<>>


\* C27: in every reachable state no two rows of a user table share a
\* username and no two share an email.
C27_UsersUnique ==
    /\ \A r1 \in t_users, r2 \in t_users :
          r1 # r2 => r1.username # r2.username /\ r1.email # r2.email
    /\ \A r1 \in user_info.rows, r2 \in user_info.rows :
          r1 # r2 => r1.User_name # r2.User_name /\ r1.Email # r2.Email


\* C28: on an open connection, queryFlightByNum of an id that is not stored
\* is not reported as a failure: it either reports success or, when the
\* statement itself failed, reports a reason that belongs to failed statements
\* alone.
C28_AbsentFlightIsNotAFailure ==
    [][Handles("queryFlightByNum") /\ dbOpen /\ pending.flightId \notin DOMAIN flight
          => \/ last'.ret
             \/ last'.msg \in StoreErrorReasons]_vars


\* The calls that test the connection before anything else.
ConnectionCheckedCalls ==
    {"userRegister", "userLogin", "verifyAdminLogin", "queryAllFlights",
     "queryFlightByNum", "addFlight", "updateFlightPrice", "updateFlightSeats",
     "deleteFlight"}

C30_NoOperationRelocks ==
    \A t \in DOMAIN thr :
        ~(thr[t].pc = "relock" /\ locks[thr[t].arg.class] = t)

-----------------------------------------------------------------------------
(* The two password-strength tests as functions of their argument          *)

\* Longest password submitted to the two tests.
MaxPasswordLen == 8
\* One character of each class the tests tell apart: a letter, a decimal
\* digit, a number that is not a decimal digit, and a character that is
\* neither.
PasswordAlphabet == {"a", "1", "SUPERSCRIPT_TWO", "#"}
StrengthInputs == UNION {[1..n -> PasswordAlphabet] : n \in 0..MaxPasswordLen}

InvokeStrength ==
    /\ pending = Idle
    /\ \E password \in StrengthInputs, op \in {"isValidPasswordStrength",
                                              "DBUser::isPasswordStrong"} :
          pending' = [op |-> op, password |-> password]
    /\ last' = Running
    /\ UNCHANGED <<storeVars, dbOpen, adminVars, userVars, feedVars, threadVars>>

\* DBManager::isValidPasswordStrength applied to the submitted password.
isValidPasswordStrengthCall ==
    /\ pending.op = "isValidPasswordStrength"
    /\ Return("isValidPasswordStrength", isValidPasswordStrength(pending.password),
              "", <<>>)
    /\ UNCHANGED <<storeVars, dbOpen, adminVars, userVars>>

\* DBUser::isPasswordStrong applied to the submitted password.
isPasswordStrongCall ==
    /\ pending.op = "DBUser::isPasswordStrong"
    /\ Return("DBUser::isPasswordStrong", isPasswordStrong(pending.password),
              "", <<>>)
    /\ UNCHANGED <<storeVars, dbOpen, adminVars, userVars>>

NextStrength ==
    \/ InvokeStrength
    \/ isValidPasswordStrengthCall
    \/ isPasswordStrongCall

SpecStrength == Init /\ [][NextStrength]_vars

\* The stated rule: at least 8 characters, a letter and a decimal digit.
passwordStrength(s) ==
    /\ Len(s) >= 8
    /\ \E i \in 1..Len(s) : s[i] \in AsciiLetters
    /\ \E i \in 1..Len(s) : s[i] \in AsciiDigits

\* C31: each of the two password-strength tests answers true exactly when the
\* password has at least 8 characters, at least one letter and at least one
\* decimal digit, so the two agree on every input.
C31_PasswordStrengthRule ==
    [][Handles("isValidPasswordStrength") \/ Handles("DBUser::isPasswordStrong")
          => last'.ret = passwordStrength(pending.password)]_vars

-----------------------------------------------------------------------------
(* Both sessions, registration and the flight repository together          *)

\* Calls of every kind on one store: logins that succeed and that fail, a
\* registration that succeeds, and one flight call of each kind.
FrameCalls ==
    FlightSessionCalls
    \cup {[op |-> "verifyAdminLogin", adminName |-> n, password |-> PwStrong] :
             n \in {"root", "guest"}}
    \cup {[op |-> "userLogin", username |-> u, password |-> PwStrong2] :
             u \in {"alice", "bob"}}
    \cup {[op |-> "userRegister", email |-> EmailC, username |-> "bob",
           password |-> PwStrong2]}
    \cup {DefaultForm, [DefaultForm EXCEPT !.price = 0],
          [op |-> "updateFlightPrice", Flight_id |-> "F1", newPrice |-> 20],
          [op |-> "updateFlightSeats", Flight_id |-> "F1", newRemainSeats |-> 0],
          [op |-> "deleteFlight", Flight_id |-> "F1"],
          [op |-> "queryFlightByNum", flightId |-> "F1"],
          [op |-> "queryAllFlights"]}

InvokeFrame ==
    /\ pending = Idle
    /\ pending' \in FrameCalls
    /\ last' = Running
    /\ UNCHANGED <<storeVars, dbOpen, adminVars, userVars, feedVars, threadVars>>

NextFrame ==
    \/ InvokeFrame
    \/ connectDB
    \/ disconnectDB
    \/ verifyAdminLogin
    \/ adminLogout
    \/ userRegister
    \/ userLogin
    \/ userLogout
    \/ addFlight
    \/ addFlightRaced
    \/ updateFlightPrice
    \/ updateFlightSeats
    \/ deleteFlight
    \/ queryAllFlights
    \/ queryFlightByNum

SpecFrame == InitFlight /\ [][NextFrame]_vars

UserSessionCalls == {"userRegister", "userLogin", "userLogout"}
AdminSessionCalls == {"verifyAdminLogin", "adminLogout"}
FlightCallNames ==
    {"addFlight", "updateFlightPrice", "updateFlightSeats", "deleteFlight",
     "queryAllFlights", "queryFlightByNum"}

\* C32: user register, user login and user logout never change the admin
\* session; admin login and admin logout never change the user session;
\* register and every flight call change neither session.
C32_SessionsIndependent ==
    [][pending' = Idle =>
          /\ pending.op \in UserSessionCalls => UNCHANGED adminVars
          /\ pending.op \in AdminSessionCalls => UNCHANGED userVars
          /\ pending.op \in FlightCallNames \cup {"userRegister"}
                => UNCHANGED <<adminVars, userVars>>]_vars

\* A user has logged in, and a second user has registered, while an
\* administrator stays logged in.
C32_Witness ==
    /\ m_isAdminLoggedIn /\ m_currentAdminName = "root"
    /\ m_isUserLoggedIn /\ m_currentUserName = "alice"
    /\ \E r \in t_users : r.username = "bob"
    /\ last.op = "userRegister" /\ last.ret


\* C33: flight ids stay unique even when the pre-check of addFlight does not
\* protect.  An addFlight whose id is stored when its INSERT runs, because the
\* pre-check query failed or because another writer stored the id after the
\* pre-check, returns failure and leaves the row of that id as it was; an
\* addFlight returns success only for an id that was not stored, and then the
\* table holds exactly one row more, the submitted one.
C33_StoreKeepsFlightIdsUnique ==
    [][Handles("addFlight") =>
          LET id == pending.flightId
          IN /\ id \in DOMAIN flight => ~last'.ret /\ flight' = flight
             /\ last'.ret => /\ id \notin DOMAIN flight
                             /\ flight' = insertFlight(id, flightRow(pending))
             /\ ~last'.ret /\ flight' # flight
                   => /\ id \notin DOMAIN flight
                      /\ \E w \in ExternalRows : flight' = insertFlight(id, w)]_vars

\* An addFlight was refused by the store after another writer stored its id.
C33_Witness ==
    /\ last.op = "addFlight" /\ ~last.ret /\ last.msg = "store_error"
    /\ "F1" \in DOMAIN flight
    /\ flight["F1"] \in ExternalRows


\* C34: a failed login never alters an existing session: when an admin login
\* or a user login fails while a session of that kind is authenticated, the
\* session holds the same id and name afterwards.
C34_FailedLoginKeepsSession ==
    [][/\ Handles("verifyAdminLogin") /\ m_isAdminLoggedIn /\ ~last'.ret
             => UNCHANGED adminVars
       /\ Handles("userLogin") /\ m_isUserLoggedIn /\ ~last'.ret
             => UNCHANGED userVars
       /\ Handles("DBUser::verifyUserLogin") /\ dbUser.m_isUserLoggedIn /\ ~last'.ret
             => dbUser' = dbUser]_vars


FlightMutations == {"addFlight", "updateFlightPrice", "updateFlightSeats", "deleteFlight"}

\* C35: every flight mutation emits operateResult, and the boolean the call
\* returns equals the success flag of that event, whatever the store did.
C35_ReturnEqualsEmittedFlag ==
    [][pending.op \in FlightMutations /\ pending' = Idle =>
          /\ Emitted("operateResult")
          /\ \A i \in 1..Len(last'.events) :
                last'.events[i].sig = "operateResult"
                    => last'.events[i].flag = last'.ret]_vars


\* C36: in every state of DBManager reached by its own operations, an
\* authenticated user session implies an open connection: isUserLoggedIn()
\* is never true while isConnected() is false.
C36_UserSessionNeedsConnection ==
    isUserLoggedIn => isConnected

\* A registered user has just logged in on the open connection.
C36_Witness ==
    /\ isUserLoggedIn /\ isConnected
    /\ last.op = "userLogin" /\ last.ret
    /\ \E r \in t_users : r.username = "bob"


\* C37: over a feed that does not change, after any sequence of backward-scan
\* and history steps, current_post_index stays within the bounds of
\* posts_list and the id of the displayed post equals
\* posts_list[current_post_index] (the list being 0-based in the page and
\* 1-based here).  Before any post is displayed the list is empty and the
\* index is 0.
C37_DisplayedPostIsCurrentEntry ==
    assigned = MaxInitialPost =>
        IF posts_list = <<>>
        THEN current_post_index = 0 /\ card_id = NoCard
        ELSE /\ current_post_index \in 0..(Len(posts_list) - 1)
             /\ card_id = posts_list[current_post_index + 1]

-----------------------------------------------------------------------------
(* Threads: the notifications of the locking operations                    *)

\* Calls that take the lock and emit: the connection, a login, a flight
\* mutation.
EmittingCalls ==
    {[class |-> "DBManager", op |-> "connectDB"],
     [class |-> "DBManager", op |-> "disconnectDB"],
     [class |-> "DBManager", op |-> "userLogin",
      username |-> "alice", password |-> PwStrong],
     [DefaultForm EXCEPT !.flightId = "F2"] @@ [class |-> "DBManager"]}

\* A thread enters one of these operations: its first statement is the
\* QMutexLocker.
mtCallEmitting(t) ==
    /\ thr[t].pc = "idle"
    /\ \E call \in EmittingCalls :
          thr' = [thr EXCEPT ![t] =
                     [IdleThread EXCEPT !.op = call.op, !.arg = call, !.pc = "lock"]]
    /\ UNCHANGED <<locks, m_instance, constructed, dbUser, user_info>>
    /\ UNCHANGED <<coreVars, feedVars>>

NextEmit ==
    \/ \E t \in Threads : mtCallEmitting(t)
    \/ \E t \in Threads : mtLock(t)
    \/ \E t \in Threads : mtUnlock(t)
    \/ connectDB
    \/ disconnectDB
    \/ userLogin
    \/ addFlight

SpecEmit == InitMT /\ [][NextEmit]_vars

\* C38: every notification of a locking DBManager operation is emitted before
\* the operation releases the lock: in the step that emits, the thread running
\* the operation holds DBManager's lock before and after, so a handler invoked
\* synchronously, and any locking operation it calls, finds the lock held.
C38_EmittedUnderLock ==
    [][pending # Idle /\ pending' = Idle /\ last'.events # <<>> =>
          \E t \in Threads :
              /\ locks["DBManager"] = t /\ locks'["DBManager"] = t
              /\ thr[t].pc = "locked" /\ thr[t].arg = pending]_vars

\* addFlight has emitted operateResult and still holds the lock, while another
\* thread waits at the locker of a locking operation.
C38_Witness ==
    \E t \in Threads, u \in Threads :
        /\ locks["DBManager"] = t /\ thr[t].pc = "locked" /\ thr[t].op = "addFlight"
        /\ pending = Idle /\ last.op = "addFlight" /\ last.events # <<>>
        /\ u # t /\ thr[u].pc = "lock" /\ thr[u].arg.class = "DBManager"

====
